---- MODULE Spec2Model ----
(***************************************************************************)
(* libtracy -- function call tracing (src/libtracy.c).                     *)
(*                                                                         *)
(* The model follows the C source: the process-wide variables and the      *)
(* function-local statics are the state, every C function is an operator   *)
(* from a process record to a process record, and the entry points of the  *)
(* library (the constructor, the two instrumentation hooks, the signal     *)
(* handler and the exit-time resolver) are the actions.                    *)
(*                                                                         *)
(* C strings are sequences of character codes (the terminating NUL is the  *)
(* end of the sequence); a pointer into a string is the suffix it points   *)
(* at; the null pointer is NULL.  An `unsigned' is kept as the 32-bit      *)
(* two's complement integer with the same bits, so -1 stands for           *)
(* 4294967295 (see UGE, UDec, UInc).                                       *)
(***************************************************************************)
EXTENDS Integers, Sequences, FiniteSets, TLC

VARIABLES
    env,              \* the process environment: variable name -> string or NULL
    armel,            \* whether the library was built with __ARMEL__
    Tracing,          \* static int Tracing
    Callstack_depth,  \* static unsigned int Callstack_depth
    Async_fd,         \* static int Async_fd
    pt,               \* the statics of print_trace()
    rd,               \* the statics of report_dso()
    rf,               \* the statics of report_function()
    pinfo,            \* the statics of procinfo()
    seen,             \* the static DSO cache of addr2name()
    handler,          \* the signal toggle_tracing() is installed for, 0 if none
    atexit_fns,       \* functions registered with atexit()
    backlog,          \* the records written to the async temporary file
    fd_open,          \* the descriptors the process holds open
    mapped,           \* the descriptors whose file the process has mmap()ed
    getenvs,          \* how many times getenv() was called per variable
    out,              \* the lines the last step emitted through LOGIT()
    outcome,          \* where the last print_trace() call returned
    pc,               \* "start" (before the constructor), "run", "exiting"
    stack,            \* the instrumented frames that are active, outermost first
    last,             \* what the last step was
    nevents,          \* hook calls and signal deliveries so far
    nENTER,           \* ENTER lines emitted so far
    nLEAVE,           \* LEAVE lines emitted so far
    nsignals,         \* deliveries of the trigger signal so far
    sig_midframe,     \* a delivery happened while an instrumented frame was active
    args,             \* the arguments of a library routine exercised on its own
    result            \* and what it returned

vars == << env, armel, Tracing, Callstack_depth, Async_fd, pt, rd, rf, pinfo,
           seen, handler, atexit_fns, backlog, fd_open, mapped, getenvs, out,
           outcome,
           pc, stack, last, nevents, nENTER, nLEAVE, nsignals, sig_midframe,
           args, result >>

-----------------------------------------------------------------------------
(* Bounds of the model.                                                    *)

MaxStack == 3
MaxEvents == 6
MaxWordLen == 3
MaxScript == 3
MaxPatLen == 4
MaxStrLen == 3
MaxNest == 2
MaxHooks == 3
MaxSyms == 3
MaxSections == 3

-----------------------------------------------------------------------------
(* Characters and strings.                                                 *)

CH == [ a |-> 97, b |-> 98, f |-> 102, g |-> 103, x |-> 120, y |-> 121,
        Y |-> 89, zero |-> 48, one |-> 49, two |-> 50, nine |-> 57,
        minus |-> 45, plus |-> 43, space |-> 32,
        colon |-> 58, slash |-> 47, star |-> 42, qmark |-> 63,
        lparen |-> 40, rparen |-> 41, dollar |-> 36, E |-> 69, L |-> 76 ]

NULL == << -1 >>

\* *p for a pointer p into a string: the character it points at, 0 at the end.
Deref(p) == IF p = << >> THEN 0 ELSE Head(p)

\* p + n
Advance(p, n) == SubSeq(p, n + 1, Len(p))

\* The strings over the character set S of length at most n.
StringsOver(S, n) == UNION { [1..k -> S] : k \in 0..n }

\* atoi(): optional white space, an optional sign, then decimal digits up to
\* the first character that is not one; 0 when there are no digits.
RECURSIVE atoi_digits(_, _)
atoi_digits(p, acc) ==
    IF Deref(p) >= CH.zero /\ Deref(p) <= CH.nine
    THEN atoi_digits(Tail(p), 10 * acc + (Deref(p) - CH.zero))
    ELSE acc

RECURSIVE atoi(_)
atoi(p) ==
    IF Deref(p) = CH.space THEN atoi(Tail(p))
    ELSE IF Deref(p) = CH.minus THEN 0 - atoi_digits(Tail(p), 0)
    ELSE IF Deref(p) = CH.plus THEN atoi_digits(Tail(p), 0)
    ELSE atoi_digits(p, 0)

\* Unsigned 32-bit arithmetic on the two's complement representation.
UGE(a, b) == IF (a < 0) = (b < 0) THEN a >= b ELSE a < 0
UInc(a) == IF a = 2147483647 THEN (0 - 2147483647) - 1 ELSE a + 1
UDec(a) == IF a = (0 - 2147483647) - 1 THEN 2147483647 ELSE a - 1

-----------------------------------------------------------------------------
(* fgrep matching: hash_path(), match_words(), mkwords().                  *)

\* hash_path(): the word_st of the last component of path.
RECURSIVE hash_path_loop(_, _)
hash_path_loop(word, path) ==
    IF Deref(path) = 0 THEN word
    ELSE IF Deref(path) # CH.slash
    THEN hash_path_loop([word EXCEPT !.hash = @ + Head(path),
                                     !.length = @ + 1], Tail(path))
    ELSE hash_path_loop([word |-> Tail(path), hash |-> 0, length |-> 0],
                        Tail(path))

hash_path(path) ==
    hash_path_loop([word |-> path, hash |-> 0, length |-> 0], path)

\* memcmp(a, b, n) == 0
memcmp_equal(a, b, n) == SubSeq(a, 1, n) = SubSeq(b, 1, n)

\* A comparison that trusts the hash and the length and skips the memcmp().
word_matches_no_memcmp(iword, w) ==
    IF iword.hash # w.hash THEN FALSE
    ELSE iword.length = w.length

\* One turn of the do-while loop of match_words().
word_matches(iword, w) ==
    IF iword.hash # w.hash THEN FALSE
    ELSE IF iword.length # w.length THEN FALSE
    ELSE memcmp_equal(iword.word, w.word, iword.length)

\* match_words(): words is the linked list as a sequence, << >> for the null
\* list; the basename of path if it matches any of the words, otherwise NULL.
match_words(words, path) ==
    IF words = << >> THEN NULL
    ELSE LET iword == hash_path(path)
         IN  IF \E i \in 1..Len(words) : word_matches(iword, words[i])
             THEN iword.word
             ELSE NULL

\* The do-while loop of mkwords(): str is the unread rest of the list string,
\* words the list built so far (the word being built last), mallocs the
\* number of allocations that will still succeed.
RECURSIVE mkwords_loop(_, _, _)
mkwords_loop(str, words, mallocs) ==
    LET n == Len(words)
        again(s, ws, m) == IF Deref(s) # 0
                           THEN mkwords_loop(s, ws, m)
                           ELSE [words |-> ws, failed |-> FALSE, mallocs |-> m]
    IN  IF Deref(str) # CH.colon
        THEN again(Tail(str),
                   [words EXCEPT ![n] = [@ EXCEPT !.hash = @ + Head(str),
                                                  !.length = @ + 1]],
                   mallocs)
        ELSE IF mallocs = 0
        THEN [words |-> words, failed |-> TRUE, mallocs |-> 0]
        ELSE again(Tail(str),
                   Append(words, [word |-> Tail(str), hash |-> 0, length |-> 0]),
                   mallocs - 1)

\* mkwords(): the word list of a colon-separated list of basenames, whether
\* a malloc() failed (which is reported with LOGIT), and the allocations left.
mkwords(str, mallocs) ==
    IF Deref(str) = 0
    THEN [words |-> << >>, failed |-> FALSE, mallocs |-> mallocs]
    ELSE IF mallocs = 0
    THEN [words |-> << >>, failed |-> TRUE, mallocs |-> 0]
    ELSE mkwords_loop(str, << [word |-> str, hash |-> 0, length |-> 0] >>,
                      mallocs - 1)

-----------------------------------------------------------------------------
(* Extended glob matching: find_end_of_glob(), match_glob(), match_eglob(). *)

\* find_end_of_glob(): the position after the first c of str in the
\* outermost grouping scope, or NULL.
RECURSIVE find_end_of_glob_loop(_, _, _)
find_end_of_glob_loop(str, c, depth) ==
    IF Deref(str) = 0 THEN NULL
    ELSE IF depth = 0 /\ Head(str) = c THEN Tail(str)
    ELSE IF Head(str) = CH.lparen
    THEN find_end_of_glob_loop(Tail(str), c, depth + 1)
    ELSE IF Head(str) = CH.rparen
    THEN IF depth > 0
         THEN find_end_of_glob_loop(Tail(str), c, depth - 1)
         ELSE NULL
    ELSE find_end_of_glob_loop(Tail(str), c, depth)

find_end_of_glob(str, c) == find_end_of_glob_loop(str, c, 0)

RECURSIVE match_glob(_, _)
RECURSIVE match_eglob(_, _)
RECURSIVE match_glob_star(_, _)

\* A '*' that ignores no character of str.
match_glob_star_once(pattern, str) == match_glob(pattern, str)

\* case '*' of match_glob(): do ... while (*str++)
match_glob_star(pattern, str) ==
    IF match_glob(pattern, str) THEN TRUE
    ELSE IF Deref(str) # 0 THEN match_glob_star(pattern, Tail(str))
    ELSE FALSE

match_glob(pattern, str) ==
    LET c == Deref(pattern)
    IN  IF c = CH.lparen THEN match_eglob(Tail(pattern), str)
        ELSE IF c = CH.rparen THEN match_glob(Tail(pattern), str)
        ELSE IF c = CH.colon
        THEN LET e == find_end_of_glob(pattern, CH.rparen)
             IN  IF e # NULL THEN match_glob(e, str) ELSE Deref(str) = 0
        ELSE IF c = 0 THEN Deref(str) = 0
        ELSE IF c = CH.star THEN match_glob_star(Tail(pattern), str)
        ELSE IF c = CH.qmark
        THEN IF Deref(str) = 0 THEN FALSE
             ELSE match_glob(Tail(pattern), Tail(str))
        ELSE IF Deref(str) # c THEN FALSE
        ELSE match_glob(Tail(pattern), Tail(str))

match_eglob(pattern, str) ==
    IF match_glob(pattern, str) THEN TRUE
    ELSE LET e == find_end_of_glob(pattern, CH.colon)
         IN  IF e # NULL THEN match_eglob(e, str) ELSE FALSE

-----------------------------------------------------------------------------
(* The process the library is loaded into, as one record: what the C       *)
(* functions below read and write.  io holds what the system calls of the  *)
(* current step will answer.                                               *)

EnvVars == { "TRACY_SIGNAL", "TRACY_INLIBS", "TRACY_EXLIBS", "TRACY_INFUNS",
             "TRACY_EXFUNS", "TRACY_MAXDEPTH", "TRACY_ASYNC",
             "TRACY_LOG_ENTRIES_ONLY", "TRACY_LOG_TIME", "TRACY_LOG_TID",
             "TRACY_LOG_FNAME", "TRACY_LOG_INDENT" }

\* getenv(): the value, and the process with the lookup counted.
getenv(p, name) == p.env[name]
looked_up(p, name) == [p EXCEPT !.getenvs[name] = @ + 1]

\* A line handed to LOGIT().  kind is "trace" (a name was resolved),
\* "trace_addr" (<dso>:[0xADDR]), "async" ([0xADDR]), "SYMTAB:", "symtab" and
\* "symtab_addr" (the two forms of a table line), or a diagnostic.
Line(kind) == [ kind |-> kind, pi |-> "", dir |-> "", depth |-> 0, width |-> 0,
                fname |-> << >>, colon |-> "", funame |-> << >>, addr |-> 0 ]

LOGIT(p, line) == [p EXCEPT !.out = Append(@, line)]

\* malloc(): whether the allocation succeeds, and the process after it.
malloc_ok(p) == p.io.mallocs > 0
malloced(p) == [p EXCEPT !.io.mallocs = IF @ > 0 THEN @ - 1 ELSE 0]

-----------------------------------------------------------------------------
(* The traced program and its files, as the dynamic loader and the file    *)
(* system present them.                                                    *)

\* Addresses inside three instrumented functions.
Addrs == { 16, 32, 48 }

\* The ELF section types and the symbol record size the code tests for.
SHT_SYMTAB == 2
SHT_STRTAB == 3
SIZEOF_ELF32_SYM == 16
SIGPROF == 27

ELFMAG == << 127, 69, 76, 70 >>

\* dli_fname pointers and the strings they point at: "/a" is a library,
\* "b" the executable under its relative argv[0], "/x" an object that was
\* loaded from a file which is no longer an ELF image.
PathOf(fname) ==
    IF fname = 1 THEN << CH.slash, CH.a >>
    ELSE IF fname = 2 THEN << CH.b >>
    ELSE << CH.slash, CH.x >>

\* dladdr(): ok is its return value; 16 lies in f() of /a, which the loader
\* can name; 32 lies in g() of b, whose name only the ELF symbol table of b
\* has; 8 lies in b where only a '$' symbol is at or below it; 40 lies in
\* /x; the loader knows nothing about 48.
dladdr(addr) ==
    IF addr = 16
    THEN [ok |-> TRUE, dli_fname |-> 1, dli_fbase |-> 0,
          dli_sname |-> << CH.f >>, dli_saddr |-> 16]
    ELSE IF addr = 32 \/ addr = 8
    THEN [ok |-> TRUE, dli_fname |-> 2, dli_fbase |-> 0,
          dli_sname |-> NULL, dli_saddr |-> 0]
    ELSE IF addr = 40
    THEN [ok |-> TRUE, dli_fname |-> 3, dli_fbase |-> 0,
          dli_sname |-> NULL, dli_saddr |-> 0]
    ELSE [ok |-> FALSE, dli_fname |-> 0, dli_fbase |-> 0,
          dli_sname |-> NULL, dli_saddr |-> 0]

\* The image of a file: its first bytes and its section headers, each with
\* the contents of its section (the bytes of a string table, the records of
\* a symbol table).
Section(type, entsize, bytes, syms) ==
    [sh_type |-> type, sh_entsize |-> entsize, bytes |-> bytes, syms |-> syms]

ImageOf(path) ==
    IF path = << CH.slash, CH.x >>
    THEN [ e_ident |-> << 35, 33, CH.slash, CH.b >>, shdrs |-> << >> ]
    ELSE
    [ e_ident |-> ELFMAG,
      shdrs |-> << Section(SHT_STRTAB, 0, << 0, CH.x, 0 >>, << >>),
                   Section(SHT_SYMTAB, SIZEOF_ELF32_SYM, << >>,
                           << [st_name |-> 1, st_value |-> 8],
                              [st_name |-> 3, st_value |-> 24],
                              [st_name |-> 9, st_value |-> 30] >>),
                   Section(SHT_STRTAB, 0,
                           << 0, CH.dollar, 0, IF path = << CH.b >> THEN CH.g
                                                ELSE CH.f, 0 >>,
                           << >>) >> ]

-----------------------------------------------------------------------------
(* Function name resolution: getsym(), getelf(), getdso().                 *)

\* The NUL-terminated string at p.
RECURSIVE c_string(_)
c_string(p) == IF Deref(p) = 0 THEN << >> ELSE << Head(p) >> \o c_string(Tail(p))

\* The for loop of getsym() over the symbols from index i on; closest is the
\* index of the closest symbol so far (0 for none) and diff its distance.
RECURSIVE getsym_loop(_, _, _, _, _, _)

\* A loop that records the distance of a closer symbol before it looks at
\* the name of the symbol.
getsym_loop_hiding(dso, base, addr, i, closest, diff) ==
    IF i > Len(dso.symtab) THEN closest
    ELSE LET sym == dso.symtab[i]
             eddr == IF sym.st_value > base THEN addr ELSE addr - base
             now == eddr - sym.st_value
             skip == getsym_loop(dso, base, addr, i + 1, closest, diff)
         IN  IF eddr < sym.st_value THEN skip
             ELSE IF closest = 0 \/ diff > now
             THEN IF sym.st_name >= Len(dso.strtab)
                  THEN getsym_loop(dso, base, addr, i + 1, closest, now)
                  ELSE IF Deref(Advance(dso.strtab, sym.st_name)) = CH.dollar
                  THEN getsym_loop(dso, base, addr, i + 1, closest, now)
                  ELSE IF now = 0 THEN i
                  ELSE getsym_loop(dso, base, addr, i + 1, i, now)
             ELSE skip

getsym_loop(dso, base, addr, i, closest, diff) ==
    IF i > Len(dso.symtab) THEN closest
    ELSE LET sym == dso.symtab[i]
             eddr == IF sym.st_value > base THEN addr ELSE addr - base
             now == eddr - sym.st_value
             skip == getsym_loop(dso, base, addr, i + 1, closest, diff)
         IN  IF eddr < sym.st_value THEN skip
             ELSE IF closest = 0 \/ diff > now
             THEN IF sym.st_name >= Len(dso.strtab) THEN skip
                  ELSE IF Deref(Advance(dso.strtab, sym.st_name)) = CH.dollar
                  THEN skip
                  ELSE IF now = 0 THEN i
                  ELSE getsym_loop(dso, base, addr, i + 1, i, now)
             ELSE skip

\* getsym(): the name of the function of dso that addr lies in, or NULL.
getsym(dso, base, addr) ==
    LET closest == getsym_loop(dso, base, addr, 1, 0, 0)
    IN  IF closest = 0 THEN NULL
        ELSE LET name == dso.symtab[closest].st_name
             IN  IF name < Len(dso.strtab)
                 THEN c_string(Advance(dso.strtab, name))
                 ELSE NULL

\* The section header loop of getelf(): the indexes of the last STRTAB and
\* the last SYMTAB section (0 for none).
RECURSIVE getelf_loop(_, _, _, _)

\* A loop that keeps the first string table it finds.
getelf_loop_first(shdrs, i, strsec, symsec) ==
    IF i > Len(shdrs) THEN [strsec |-> strsec, symsec |-> symsec]
    ELSE IF shdrs[i].sh_type = SHT_STRTAB
    THEN getelf_loop(shdrs, i + 1, IF strsec = 0 THEN i ELSE strsec, symsec)
    ELSE IF shdrs[i].sh_type = SHT_SYMTAB
    THEN getelf_loop(shdrs, i + 1, strsec, i)
    ELSE getelf_loop(shdrs, i + 1, strsec, symsec)

getelf_loop(shdrs, i, strsec, symsec) ==
    IF i > Len(shdrs) THEN [strsec |-> strsec, symsec |-> symsec]
    ELSE IF shdrs[i].sh_type = SHT_STRTAB
    THEN getelf_loop(shdrs, i + 1, i, symsec)
    ELSE IF shdrs[i].sh_type = SHT_SYMTAB
    THEN getelf_loop(shdrs, i + 1, strsec, i)
    ELSE getelf_loop(shdrs, i + 1, strsec, symsec)

\* getelf(): ok, and the string and symbol tables of the image.
getelf(file) ==
    LET found == getelf_loop(file.shdrs, 1, 0, 0)
        none == [ok |-> FALSE, strtab |-> << >>, symtab |-> << >>]
    IN  IF file.e_ident # ELFMAG THEN none
        ELSE IF found.strsec = 0 \/ found.symsec = 0 THEN none
        ELSE IF file.shdrs[found.symsec].sh_entsize # SIZEOF_ELF32_SYM THEN none
        ELSE [ok |-> TRUE,
              strtab |-> file.shdrs[found.strsec].bytes,
              symtab |-> file.shdrs[found.symsec].syms]

\* open(): the lowest descriptor number that is free.
lowest_fd(fds) == CHOOSE n \in 3..(3 + Cardinality(fds)) :
                      n \notin fds /\ \A m \in 3..(n - 1) : m \in fds

\* open() answering the descriptor hfile.
open(p, hfile) == [p EXCEPT !.fd_open = @ \cup {hfile}]

\* close()
close(p, hfile) == [p EXCEPT !.fd_open = @ \ {hfile}]

\* mmap() of the file behind hfile.
mmap(p, hfile) == [p EXCEPT !.mapped = @ \cup {hfile}]

\* munmap() of the mapping made from hfile.
munmap(p, hfile) == [p EXCEPT !.mapped = @ \ {hfile}]

\* getdso(): "Clean up" from the label out2 on.
getdso_out2(p, hfile) == close(munmap(p, hfile), hfile)

\* getdso(): "Clean up" from the label out1 on.
getdso_out1(p, hfile) == close(p, hfile)

\* What getdso() answers when it returns 0.
getdso_out0(p, fname) ==
    [p |-> p, ok |-> FALSE, hfile |-> -1,
     dso |-> [fname |-> fname, strtab |-> << >>, symtab |-> << >>]]

\* getdso() when the file of fname holds the image file: open, fstat, mmap
\* and getelf; hfile is the descriptor it leaves open when it succeeds.
getdso_file(p, fname, file) ==
    LET path == PathOf(fname)
        opened == p.io.open \/ (Deref(path) # CH.slash /\ p.io.proc_self_exe)
        elf == getelf(file)
        hfile == lowest_fd(p.fd_open)
    IN  IF ~opened THEN getdso_out0(p, fname)
        ELSE IF ~p.io.fstat
        THEN getdso_out0(getdso_out1(open(p, hfile), hfile), fname)
        ELSE IF ~p.io.mmap
        THEN getdso_out0(getdso_out1(open(p, hfile), hfile), fname)
        ELSE IF ~elf.ok
        THEN getdso_out0(getdso_out2(mmap(open(p, hfile), hfile), hfile),
                         fname)
        ELSE [p |-> mmap(open(p, hfile), hfile), ok |-> TRUE,
              hfile |-> hfile,
              dso |-> [fname |-> fname, strtab |-> elf.strtab,
                       symtab |-> elf.symtab]]

\* getdso()
getdso(p, fname) == getdso_file(p, fname, ImageOf(PathOf(fname)))

-----------------------------------------------------------------------------
(* Report decisions: report_dso(), report_function().                      *)

\* strrchr(fname, '/'): the basename of fname.
basename_of(fname) ==
    LET slashes == { i \in 1..Len(fname) : fname[i] = CH.slash }
    IN  IF slashes = { } THEN fname
        ELSE Advance(fname, CHOOSE i \in slashes : \A j \in slashes : j <= i)

\* mkwords(env) has answered m: the process after its allocations, and the
\* list (<< >> for the NULL it returns for an empty string or when its first
\* allocation fails).
read_words_made(q, m) ==
    [p |-> IF m.failed
           THEN LOGIT([q EXCEPT !.io.mallocs = m.mallocs], Line("malloc"))
           ELSE [q EXCEPT !.io.mallocs = m.mallocs],
     words |-> m.words]

\* (env = getenv(name)) && (flist = mkwords(env))
read_words(p, name) ==
    IF getenv(p, name) = NULL
    THEN [p |-> looked_up(p, name), words |-> << >>]
    ELSE read_words_made(looked_up(p, name),
                         mkwords(getenv(p, name), p.io.mallocs))

\* report_dso(): "Read the environment if we haven't", $TRACY_EXLIBS.
report_dso_exlibs(exl) ==
    IF exl.words # << >>
    THEN [exl.p EXCEPT !.rd.flist = exl.words, !.rd.is_whitelist = 0]
    ELSE [exl.p EXCEPT !.rd.report_all = 1]

\* report_dso(): "Read the environment if we haven't", $TRACY_INLIBS.
report_dso_inlibs(inl) ==
    IF inl.words # << >>
    THEN [inl.p EXCEPT !.rd.flist = inl.words, !.rd.is_whitelist = 1]
    ELSE report_dso_exlibs(read_words(inl.p, "TRACY_EXLIBS"))

\* A first use that asks for $TRACY_EXLIBS before $TRACY_INLIBS.
report_dso_env_exlibs_first(p) ==
    IF p.rd.report_all = 0 /\ p.rd.flist = << >>
    THEN (IF read_words(p, "TRACY_EXLIBS").words # << >>
          THEN report_dso_exlibs(read_words(p, "TRACY_EXLIBS"))
          ELSE report_dso_inlibs(read_words(p, "TRACY_INLIBS")))
    ELSE p

report_dso_env(p) ==
    IF p.rd.report_all = 0 /\ p.rd.flist = << >>
    THEN report_dso_inlibs(read_words(p, "TRACY_INLIBS"))
    ELSE p

\* report_dso(): "Match against $flist if we have one", or the basename.
report_dso_match(p, fname) ==
    LET base == match_words(p.rd.flist, fname)
    IN  IF p.rd.report_all = 0 /\ base # NULL
        THEN [p |-> p, ret |-> IF p.rd.is_whitelist # 0 THEN base ELSE NULL]
        ELSE IF p.rd.report_all = 0 /\ p.rd.is_whitelist # 0
        THEN [p |-> p, ret |-> NULL]
        ELSE [p |-> p, ret |-> basename_of(fname)]

\* report_dso(): the basename of fname if calls to it are to be reported,
\* otherwise NULL.
report_dso(p, fname) == report_dso_match(report_dso_env(p), fname)

\* report_function(): "Read the environment if we haven't".
report_function_env(p) ==
    LET inf == getenv(p, "TRACY_INFUNS")
        exf == getenv(p, "TRACY_EXFUNS")
        q1 == looked_up(p, "TRACY_INFUNS")
        q2 == looked_up(q1, "TRACY_EXFUNS")
    IN  IF ~(p.rf.report_all = 0 /\ p.rf.pattern = NULL) THEN p
        ELSE IF inf # NULL /\ Deref(inf) # 0
        THEN [q1 EXCEPT !.rf.pattern = inf, !.rf.is_whitelist = 1]
        ELSE IF exf # NULL /\ Deref(exf) # 0
        THEN [q2 EXCEPT !.rf.pattern = exf, !.rf.is_whitelist = 0]
        ELSE [q2 EXCEPT !.rf.pattern = exf, !.rf.report_all = 1]

\* A decision that omits every function without a name unless all are
\* reported.
report_function_match_named(p, funame) ==
    IF p.rf.report_all # 0 THEN [p |-> p, ret |-> 1]
    ELSE IF funame = NULL THEN [p |-> p, ret |-> 0]
    ELSE IF match_eglob(p.rf.pattern, funame)
    THEN [p |-> p, ret |-> IF p.rf.is_whitelist # 0 THEN 1 ELSE 0]
    ELSE [p |-> p, ret |-> IF p.rf.is_whitelist # 0 THEN 0 ELSE 1]

report_function_match(p, funame) ==
    IF p.rf.report_all # 0 THEN [p |-> p, ret |-> 1]
    ELSE IF funame # NULL /\ match_eglob(p.rf.pattern, funame)
    THEN [p |-> p, ret |-> IF p.rf.is_whitelist # 0 THEN 1 ELSE 0]
    ELSE [p |-> p, ret |-> IF p.rf.is_whitelist # 0 THEN 0 ELSE 1]

\* report_function(): whether to report a call to funame (1 or 0).
report_function(p, funame) == report_function_match(report_function_env(p), funame)

-----------------------------------------------------------------------------
(* addr2name().                                                            *)

\* "[???]"
UNKNOWN_DSO == << 91, 63, 63, 63, 93 >>

\* return r ? found : -1, where r is what report_function() answered
reported(r, fname, funame, found) ==
    [p |-> r.p, ret |-> IF r.ret # 0 THEN found ELSE -1,
     fname |-> fname, funame |-> funame]

\* return report_function(funame) ? found : -1
reported_as(p, fname, funame, found) ==
    reported(report_function(p, funame), fname, funame, found)

\* return report_function(*funamep) ? *funamep != NULL : -1
reported_name(p, fname, funame) ==
    reported_as(p, fname, funame, IF funame # NULL THEN 1 ELSE 0)

\* The index in the cache of the entry whose fname is this pointer, 0 if none.
seen_index(cache, fname) ==
    IF \E i \in 1..Len(cache) : cache[i].fname = fname
    THEN CHOOSE i \in 1..Len(cache) :
             /\ cache[i].fname = fname
             /\ \A j \in 1..(i - 1) : cache[j].fname # fname
    ELSE 0

\* addr2name() cleaning up only the descriptor of what getdso() did.
forget_unmapping_never(p, hfile) == LOGIT(close(p, hfile), Line("malloc"))

\* addr2name(): "Failed, clean up what getdso() did."
forget(p, hfile) == LOGIT(close(munmap(p, hfile), hfile), Line("malloc"))

\* addr2name(): "Try to remember it", or clean up what getdso() did.
remember(got) ==
    IF malloc_ok(got.p)
    THEN [malloced(got.p) EXCEPT !.seen = << got.dso >> \o @]
    ELSE forget(got.p, got.hfile)

\* addr2name(): "Never saw this DSO before, let's meet"; got is what getdso()
\* answered.
addr2name_newdso(got, fname, info, addr) ==
    IF ~got.ok THEN reported_as(got.p, fname, NULL, 0)
    ELSE reported_name(remember(got), fname,
                       getsym(got.dso, info.dli_fbase, addr))

\* A loop that finds no entry in the cache.
addr2name_seen_anew(p, fname, info, addr, i) ==
    addr2name_newdso(getdso(p, info.dli_fname), fname, info, addr)

\* addr2name(): the for loop over the cache; i is the entry of the DSO.
addr2name_seen(p, fname, info, addr, i) ==
    IF i = 0
    THEN addr2name_newdso(getdso(p, info.dli_fname), fname, info, addr)
    ELSE reported_name(p, fname, getsym(p.seen[i], info.dli_fbase, addr))

\* addr2name() from what report_dso() answered.
addr2name_dso(rdso, info, addr) ==
    IF rdso.ret = NULL
    THEN [p |-> rdso.p, ret |-> -1, fname |-> UNKNOWN_DSO, funame |-> NULL]
    ELSE IF info.dli_sname # NULL
    THEN reported_as(rdso.p, rdso.ret, info.dli_sname, 1)
    ELSE addr2name_seen(rdso.p, rdso.ret, info,
                        IF info.dli_saddr # 0 THEN info.dli_saddr ELSE addr,
                        seen_index(rdso.p.seen, info.dli_fname))

\* addr2name() from what dladdr() answered.
addr2name_info(p, addr, info) ==
    IF ~info.ok THEN reported_as(p, UNKNOWN_DSO, NULL, 0)
    ELSE IF info.dli_fname = 0 THEN reported_as(p, UNKNOWN_DSO, NULL, 0)
    ELSE addr2name_dso(report_dso(p, PathOf(info.dli_fname)), info, addr)

\* addr2name(): ret is 1 if everything is OK, 0 if the name was not found,
\* -1 if the call is not to be reported; fname and funame are what it stores
\* through its pointer arguments.
addr2name(p, addr) == addr2name_info(p, addr, dladdr(addr))

-----------------------------------------------------------------------------
(* Printing the trace: procinfo(), resolve_backlog(), print_trace().       *)

\* env && env[0] == '1'
is_one(e) == e # NULL /\ Deref(e) = CH.one

\* procinfo(): "if (need_time < 0)".
procinfo_env(p) ==
    IF p.pinfo.need_time < 0
    THEN [looked_up(looked_up(p, "TRACY_LOG_TIME"), "TRACY_LOG_TID")
             EXCEPT !.pinfo.need_time =
                        IF is_one(getenv(p, "TRACY_LOG_TIME")) THEN 1 ELSE 0,
                    !.pinfo.need_tid =
                        IF is_one(getenv(p, "TRACY_LOG_TID")) THEN 1 ELSE 0]
    ELSE p

\* procinfo(): the prefix it formats: "", "time", "tid" or "time[tid]".
procinfo_format(p) ==
    LET t == p.pinfo.need_time # 0
        i == p.pinfo.need_tid # 0
    IN  [p |-> p,
         ret |-> IF ~t /\ ~i THEN "" ELSE IF t /\ ~i THEN "time"
                 ELSE IF ~t /\ i THEN "tid" ELSE "time[tid]"]

procinfo(p) == procinfo_format(procinfo_env(p))

\* The switch of resolve_backlog() on what addr2name() answered for addr.
resolve_backlog_line(r, addr) ==
    IF r.ret = 1
    THEN LOGIT(r.p, [Line("symtab") EXCEPT !.addr = addr, !.fname = r.fname,
                                           !.funame = r.funame])
    ELSE IF r.ret = 0
    THEN LOGIT(r.p, [Line("symtab_addr") EXCEPT !.addr = addr,
                                                !.fname = r.fname])
    ELSE r.p

\* The while loop of resolve_backlog() over the records read from the file.
RECURSIVE resolve_backlog_loop(_, _)
resolve_backlog_loop(p, records) ==
    IF records = << >> THEN p
    ELSE resolve_backlog_loop(
             resolve_backlog_line(addr2name(p, Head(records)), Head(records)),
             Tail(records))

\* read(Async_fd, ...) answers only while the descriptor is open.
resolve_backlog_read(p) ==
    resolve_backlog_loop(p, IF p.Async_fd \in p.fd_open THEN p.backlog
                            ELSE << >>)

\* close(Async_fd)
resolve_backlog_close(p) == [p EXCEPT !.fd_open = @ \ {p.Async_fd}]

\* resolve_backlog(): print the address => name table.
resolve_backlog(p) ==
    resolve_backlog_close(resolve_backlog_read(LOGIT(p, Line("SYMTAB:"))))

\* return from print_trace()
returns(p, where, ret) == [p |-> [p EXCEPT !.outcome = where], ret |-> ret]

\* print_trace(): "Read $TRACY_MAXDEPTH if we haven't".
print_trace_limit(p) ==
    LET e == getenv(p, "TRACY_MAXDEPTH")
        q == looked_up(p, "TRACY_MAXDEPTH")
    IN  IF p.pt.depth_limited >= 0 THEN p
        ELSE IF e # NULL /\ Deref(e) # 0
        THEN [q EXCEPT !.pt.depth_limit = atoi(e), !.pt.depth_limited = 1]
        ELSE [q EXCEPT !.pt.depth_limited = 0]

\* A limit check that lets the frames at the limit through.
depth_limit_passed(p) ==
    /\ p.pt.depth_limited # 0
    /\ p.Callstack_depth # p.pt.depth_limit
    /\ UGE(p.Callstack_depth, p.pt.depth_limit)

\* print_trace(): "Have we reached the limit?"
depth_limit_reached(p) ==
    p.pt.depth_limited # 0 /\ UGE(p.Callstack_depth, p.pt.depth_limit)

\* print_trace(): the be_async block.
print_trace_async(p) ==
    LET q == looked_up(p, "TRACY_ASYNC")
        fd == lowest_fd(q.fd_open)
    IN  IF p.pt.be_async >= 0 THEN p
        ELSE IF ~is_one(getenv(p, "TRACY_ASYNC"))
        THEN [q EXCEPT !.pt.be_async = 0]
        ELSE IF ~q.io.mkstemp
        THEN [LOGIT(q, Line("mkstemp")) EXCEPT !.pt.be_async = 0]
        ELSE [q EXCEPT !.pt.be_async = 1, !.Async_fd = fd,
                       !.fd_open = @ \cup {fd},
                       !.atexit_fns = Append(@, "resolve_backlog")]

\* print_trace(): the entries_only static.
print_trace_entries_only(p) ==
    IF p.pt.entries_only >= 0 THEN p
    ELSE [looked_up(p, "TRACY_LOG_ENTRIES_ONLY")
             EXCEPT !.pt.entries_only =
                 IF is_one(getenv(p, "TRACY_LOG_ENTRIES_ONLY")) THEN 1 ELSE 0]

\* print_trace(): the indent static.
print_trace_indent(p) ==
    LET e == getenv(p, "TRACY_LOG_INDENT")
    IN  IF p.pt.indent >= 0 THEN p
        ELSE [looked_up(p, "TRACY_LOG_INDENT")
                 EXCEPT !.pt.indent = IF e # NULL THEN atoi(e) ELSE 0]

\* print_trace(): the log_fname static.
print_trace_log_fname(p) ==
    LET e == getenv(p, "TRACY_LOG_FNAME")
    IN  IF p.pt.log_fname >= 0 THEN p
        ELSE [looked_up(p, "TRACY_LOG_FNAME")
                 EXCEPT !.pt.log_fname = IF e # NULL
                                         THEN (IF Deref(e) = CH.one THEN 1 ELSE 0)
                                         ELSE 1]

\* if (entries_only) dir = ""
dir_word(p, dir) == IF p.pt.entries_only # 0 THEN "" ELSE dir

\* The line print_trace() formats, but for its names.
trace_line(p, kind, pi, dir, addr) ==
    [Line(kind) EXCEPT !.pi = pi, !.dir = dir_word(p, dir),
                       !.depth = p.Callstack_depth,
                       !.width = 1 + p.pt.indent * p.Callstack_depth,
                       !.addr = addr]

\* print_trace(), async mode: the LOGIT with what procinfo() answered.
print_trace_async_line(pi, addr, dir) ==
    LOGIT(pi.p, trace_line(pi.p, "async", pi.ret, dir, addr))

\* A print_trace() that writes the address of an exit to the file too.
print_trace_write_leaves(p, addr, dir) ==
    IF p.Async_fd \in p.fd_open
    THEN [p EXCEPT !.backlog = Append(@, addr)]
    ELSE p

\* print_trace(), async mode: write(Async_fd, &addr, sizeof(addr)) reaches
\* the file only while the descriptor is open.
print_trace_write(p, addr, dir) ==
    IF dir = "ENTER" /\ p.Async_fd \in p.fd_open
    THEN [p EXCEPT !.backlog = Append(@, addr)]
    ELSE p

\* print_trace(): "Write the async file if necessary".
print_trace_backlog(p, addr, dir) ==
    returns(print_trace_write(
                IF p.pt.entries_only = 0 \/ dir = "ENTER"
                THEN print_trace_async_line(procinfo(p), addr, dir)
                ELSE p,
                addr, dir),
            "async", 1)

\* print_trace(): "Log the damn thing" with what procinfo() answered; r is
\* what addr2name() answered.
print_trace_line(pi, r, addr, dir) ==
    LET named == pi.p.pt.log_fname # 0
    IN  LOGIT(pi.p,
              [trace_line(pi.p, IF r.ret # 0 THEN "trace" ELSE "trace_addr",
                          pi.ret, dir, addr)
                  EXCEPT !.fname = IF named THEN r.fname ELSE << >>,
                         !.colon = IF named THEN ":" ELSE "",
                         !.funame = IF r.ret # 0 THEN r.funame ELSE << >>])

\* A print_trace() that tests "Don't log LEAVE:s if $entries_only" before
\* it tests whether the event is omitted from the output.
print_trace_leave_first(r, addr, dir) ==
    IF r.p.pt.entries_only # 0 /\ dir # "ENTER"
    THEN returns(r.p, "silent", 1)
    ELSE IF r.ret < 0 THEN returns(r.p, "omitted", 0)
    ELSE returns(print_trace_line(procinfo(print_trace_log_fname(r.p)),
                                  r, addr, dir),
                 "logged", 1)

\* print_trace() from "Resolve $addr" on; r is what addr2name() answered.
print_trace_resolved(r, addr, dir) ==
    IF r.ret < 0 THEN returns(r.p, "omitted", 0)
    ELSE IF r.p.pt.entries_only # 0 /\ dir # "ENTER"
    THEN returns(r.p, "silent", 1)
    ELSE returns(print_trace_line(procinfo(print_trace_log_fname(r.p)),
                                  r, addr, dir),
                 "logged", 1)

\* print_trace() from "Write the async file if necessary" on.
print_trace_report(p, addr, dir) ==
    IF p.Async_fd >= 0 THEN print_trace_backlog(p, addr, dir)
    ELSE print_trace_resolved(addr2name(p, addr), addr, dir)

\* print_trace() from "Have we reached the limit?" on.
print_trace_checked(p, addr, dir) ==
    IF depth_limit_reached(p) THEN returns(p, "limit", 1)
    ELSE IF ~p.armel /\ p.io.backtrace < 3 THEN returns(p, "backtrace", 1)
    ELSE print_trace_report(
             print_trace_indent(print_trace_entries_only(print_trace_async(p))),
             addr, dir)

\* print_trace(): determines which function the control flow entered or left
\* and prints the trace message; ret is 0 when the event is omitted from the
\* output by the filters.
print_trace(p, addr, dir) == print_trace_checked(print_trace_limit(p), addr, dir)

-----------------------------------------------------------------------------
(* The entry points of the library.                                        *)

\* if (print_trace(self, "ENTER")) Callstack_depth++
enter_counted(r) ==
    IF r.ret # 0 THEN [r.p EXCEPT !.Callstack_depth = UInc(@)] ELSE r.p

\* An entry hook that does not look at the tracing flag.
enter_untested(p, self) == enter_counted(print_trace(p, self, "ENTER"))

\* __cyg_profile_func_enter()
cyg_profile_func_enter(p, self) ==
    IF ~p.Tracing THEN p
    ELSE enter_counted(print_trace(p, self, "ENTER"))

\* An exit hook that leaves the counter decremented whatever print_trace()
\* answers.
exit_not_restored(r) == r.p

\* if (!print_trace(self, "LEAVE")) Callstack_depth++
exit_restored(r) ==
    IF r.ret = 0 THEN [r.p EXCEPT !.Callstack_depth = UInc(@)] ELSE r.p

\* __cyg_profile_func_exit()
cyg_profile_func_exit(p, self) ==
    IF ~p.Tracing THEN p
    ELSE exit_restored(print_trace([p EXCEPT !.Callstack_depth = UDec(@)],
                                   self, "LEAVE"))

\* A handler that only ever switches tracing on.
toggle_tracing_on(p) == [p EXCEPT !.Tracing = TRUE]

\* toggle_tracing()
toggle_tracing(p) == [p EXCEPT !.Tracing = ~@]

\* signal(): the handler can be installed for these signal numbers only.
signal_ok(signum) == signum \in (1..64) \ {9, 19, 32, 33}

\* tracy_init(): start tracing or install a signal handler to start it later.
tracy_init(p) ==
    LET e == getenv(p, "TRACY_SIGNAL")
        q == looked_up(p, "TRACY_SIGNAL")
        yes == Deref(e) = CH.y \/ Deref(e) = CH.Y
        signum == IF yes THEN SIGPROF ELSE atoi(e)
        q1 == IF ~yes /\ signum <= 0 THEN LOGIT(q, Line("TRACY_SIGNAL")) ELSE q
    IN  IF e = NULL THEN q
        ELSE [q1 EXCEPT !.handler = IF signal_ok(signum) THEN signum ELSE 0,
                        !.Tracing = FALSE]

-----------------------------------------------------------------------------
(* The state of the process as a record, and back.                         *)

\* What the system calls answer when nothing fails: backtrace() finds its
\* three frames, allocations and files are there.
ReliableIO == [ backtrace |-> 3, mallocs |-> 8, open |-> TRUE,
                proc_self_exe |-> TRUE, fstat |-> TRUE, mmap |-> TRUE,
                mkstemp |-> TRUE ]

\* The process at the beginning of a step whose system calls answer io.
Proc(io) ==
    [ env |-> env, armel |-> armel, Tracing |-> Tracing,
      Callstack_depth |-> Callstack_depth, Async_fd |-> Async_fd,
      pt |-> pt, rd |-> rd, rf |-> rf, pinfo |-> pinfo, seen |-> seen,
      handler |-> handler, atexit_fns |-> atexit_fns, backlog |-> backlog,
      fd_open |-> fd_open, mapped |-> mapped, getenvs |-> getenvs,
      out |-> << >>, outcome |-> "none", io |-> io ]

\* The process at the end of a step.
Install(p) ==
    /\ env' = p.env
    /\ armel' = p.armel
    /\ Tracing' = p.Tracing
    /\ Callstack_depth' = p.Callstack_depth
    /\ Async_fd' = p.Async_fd
    /\ pt' = p.pt
    /\ rd' = p.rd
    /\ rf' = p.rf
    /\ pinfo' = p.pinfo
    /\ seen' = p.seen
    /\ handler' = p.handler
    /\ atexit_fns' = p.atexit_fns
    /\ backlog' = p.backlog
    /\ fd_open' = p.fd_open
    /\ mapped' = p.mapped
    /\ getenvs' = p.getenvs
    /\ out' = p.out
    /\ outcome' = p.outcome

\* The number of lines of a log with this direction word.
RECURSIVE count_dir(_, _)
count_dir(lines, dir) ==
    IF lines = << >> THEN 0
    ELSE (IF Head(lines).dir = dir THEN 1 ELSE 0) + count_dir(Tail(lines), dir)

Counted(p) ==
    /\ nENTER' = nENTER + count_dir(p.out, "ENTER")
    /\ nLEAVE' = nLEAVE + count_dir(p.out, "LEAVE")

\* A step leaves the process as p.
Commit(p) == Install(p) /\ Counted(p)

\* An active instrumented frame: its function, and what its entry hook saw
\* and did (d0 is Callstack_depth before the hook, traced the tracing flag,
\* how where print_trace() returned); post_exit says whether it was entered
\* after exit() was called.
Frame(addr, d0, traced, how, post_exit) ==
    [ addr |-> addr, d0 |-> d0, traced |-> traced, how |-> how,
      post_exit |-> post_exit ]

NoFrame == Frame(0, 0, FALSE, "none", FALSE)

-----------------------------------------------------------------------------
(* The configurations: the environment the process is started with.        *)

Unset == [ v \in EnvVars |-> NULL ]

S_a == << CH.a >>
S_b == << CH.b >>
S_f == << CH.f >>
S_g == << CH.g >>
S_y == << CH.y >>
S_x == << CH.x >>
S_0 == << CH.zero >>
S_1 == << CH.one >>
S_2 == << CH.two >>
S_m1 == << CH.minus, CH.one >>
S_9 == << CH.nine >>

\* Filters, depth limit, async mode and entries only in every combination,
\* without a signal trigger.
MainConfigs ==
    { [Unset EXCEPT !["TRACY_INLIBS"] = libs[1], !["TRACY_EXLIBS"] = libs[2],
                    !["TRACY_INFUNS"] = funs[1], !["TRACY_EXFUNS"] = funs[2],
                    !["TRACY_MAXDEPTH"] = md, !["TRACY_ASYNC"] = as,
                    !["TRACY_LOG_ENTRIES_ONLY"] = eo] :
        libs \in {<<NULL, NULL>>, <<S_a, NULL>>, <<NULL, S_a>>},
        funs \in {<<NULL, NULL>>, <<S_f, NULL>>, <<NULL, S_f>>},
        md \in {NULL, S_1, S_2},
        as \in {NULL, S_1},
        eo \in {NULL, S_1} }

\* A signal trigger with a filter, a depth limit and async mode.
SignalConfigs ==
    { [Unset EXCEPT !["TRACY_SIGNAL"] = S_y,
                    !["TRACY_INLIBS"] = inl, !["TRACY_EXFUNS"] = exf,
                    !["TRACY_MAXDEPTH"] = md, !["TRACY_ASYNC"] = as] :
        inl \in {NULL, S_a},
        exf \in {NULL, S_f},
        md \in {NULL, S_1},
        as \in {NULL, S_1} }

\* One variable set to a value that is empty, odd or rarely used.
OddValues(v) ==
    CASE v = "TRACY_SIGNAL" -> { << >>, S_0, S_9, S_x, S_m1 }
      [] v = "TRACY_MAXDEPTH" -> { << >>, S_x, S_0, S_m1 }
      [] v = "TRACY_ASYNC" -> { << >>, S_0 }
      [] v = "TRACY_LOG_TIME" -> { << >>, S_1 }
      [] v = "TRACY_LOG_TID" -> { << >>, S_1 }
      [] v = "TRACY_LOG_FNAME" -> { << >>, S_0, S_1 }
      [] v = "TRACY_LOG_INDENT" -> { << >>, S_2, S_m1 }
      [] OTHER -> { << >> }

OddConfigs ==
    { [Unset EXCEPT ![v] = val] : <<v, val>> \in
          UNION { { <<v, val>> : val \in OddValues(v) } : v \in EnvVars } }

Configs == MainConfigs \cup SignalConfigs \cup OddConfigs

-----------------------------------------------------------------------------
(* The state machine.                                                      *)

\* The process when the library has been loaded and before its constructor
\* has run: the statics as the C initialisers leave them.
Proc0(e) ==
    [ env |-> e, armel |-> FALSE, Tracing |-> TRUE, Callstack_depth |-> 0,
      Async_fd |-> -1,
      pt |-> [ depth_limit |-> 0, depth_limited |-> -1, be_async |-> -1,
               entries_only |-> -1, indent |-> -1, log_fname |-> -1 ],
      rd |-> [ report_all |-> 0, flist |-> << >>, is_whitelist |-> 0 ],
      rf |-> [ report_all |-> 0, pattern |-> NULL, is_whitelist |-> 0 ],
      pinfo |-> [ need_time |-> -1, need_tid |-> -1 ],
      seen |-> << >>, handler |-> 0, atexit_fns |-> << >>, backlog |-> << >>,
      fd_open |-> { }, mapped |-> { },
      getenvs |-> [ v \in EnvVars |-> 0 ],
      out |-> << >>, outcome |-> "none", io |-> ReliableIO ]

InitProcess(e) ==
    /\ env = e
    /\ armel = Proc0(e).armel
    /\ Tracing = Proc0(e).Tracing
    /\ Callstack_depth = Proc0(e).Callstack_depth
    /\ Async_fd = Proc0(e).Async_fd
    /\ pt = Proc0(e).pt
    /\ rd = Proc0(e).rd
    /\ rf = Proc0(e).rf
    /\ pinfo = Proc0(e).pinfo
    /\ seen = Proc0(e).seen
    /\ handler = Proc0(e).handler
    /\ atexit_fns = Proc0(e).atexit_fns
    /\ backlog = Proc0(e).backlog
    /\ fd_open = Proc0(e).fd_open
    /\ mapped = Proc0(e).mapped
    /\ getenvs = Proc0(e).getenvs
    /\ out = Proc0(e).out
    /\ outcome = Proc0(e).outcome
    /\ pc = "start"
    /\ stack = << >>
    /\ last = [ op |-> "none", frame |-> NoFrame, io |-> ReliableIO ]
    /\ nevents = 0
    /\ nENTER = 0
    /\ nLEAVE = 0
    /\ nsignals = 0
    /\ sig_midframe = FALSE

Init ==
    /\ \E e \in Configs : InitProcess(e)
    /\ args = << >>
    /\ result = << >>

\* The constructor runs when the library is loaded.
TracyInit ==
    /\ pc = "start"
    /\ Commit(tracy_init(Proc(ReliableIO)))
    /\ pc' = "run"
    /\ last' = [ op |-> "init", frame |-> NoFrame, io |-> ReliableIO ]
    /\ UNCHANGED << stack, nevents, nsignals, sig_midframe, args, result >>

\* An instrumented function is entered, in a program that nests at most
\* nest calls and runs at most hooks hooks: its entry hook runs.
CallWithin(self, io, nest, hooks) ==
    /\ pc \in {"run", "exiting"}
    /\ Len(stack) < nest
    /\ nevents < hooks
    /\ Commit(cyg_profile_func_enter(Proc(io), self))
    /\ stack' = Append(stack, Frame(self, Callstack_depth, Tracing, outcome',
                                    pc = "exiting"))
    /\ last' = [ op |-> "enter", frame |-> stack'[Len(stack')], io |-> io ]
    /\ nevents' = nevents + 1
    /\ UNCHANGED << pc, nsignals, sig_midframe, args, result >>

\* An instrumented function is entered: its entry hook runs.
Call(self, io) == CallWithin(self, io, MaxStack, MaxEvents)

\* The innermost instrumented function returns: its exit hook runs.  The
\* frames that were active when exit() was called never return.
ReturnWithin(io, hooks) ==
    /\ stack # << >>
    /\ pc = "run" \/ (pc = "exiting" /\ stack[Len(stack)].post_exit)
    /\ nevents < hooks
    /\ Commit(cyg_profile_func_exit(Proc(io), stack[Len(stack)].addr))
    /\ last' = [ op |-> "exit", frame |-> stack[Len(stack)], io |-> io ]
    /\ stack' = SubSeq(stack, 1, Len(stack) - 1)
    /\ nevents' = nevents + 1
    /\ UNCHANGED << pc, nsignals, sig_midframe, args, result >>

Return(io) == ReturnWithin(io, MaxEvents)

\* The trigger signal is delivered: toggle_tracing() runs.
Signal ==
    /\ pc \in {"run", "exiting"}
    /\ handler # 0
    /\ nevents < MaxEvents
    /\ Commit(toggle_tracing(Proc(ReliableIO)))
    /\ last' = [ op |-> "signal", frame |-> NoFrame, io |-> ReliableIO ]
    /\ nevents' = nevents + 1
    /\ nsignals' = nsignals + 1
    /\ sig_midframe' = (sig_midframe \/ stack # << >>)
    /\ UNCHANGED << pc, stack, args, result >>

\* The functions atexit() registered, last first.
RECURSIVE run_atexit(_, _)
run_atexit(p, fns) ==
    IF fns = << >> THEN p
    ELSE run_atexit(resolve_backlog(p), SubSeq(fns, 1, Len(fns) - 1))

\* The program calls exit(), or returns from main().
ProcExit ==
    /\ pc = "run"
    /\ Commit(run_atexit(Proc(ReliableIO), atexit_fns))
    /\ pc' = "exiting"
    /\ last' = [ op |-> "procexit", frame |-> NoFrame, io |-> ReliableIO ]
    /\ UNCHANGED << stack, nevents, nsignals, sig_midframe, args, result >>

Next ==
    \/ TracyInit
    \/ \E self \in Addrs : Call(self, ReliableIO)
    \/ Return(ReliableIO)
    \/ Signal
    \/ ProcExit

Spec == Init /\ [][Next]_vars

-----------------------------------------------------------------------------
(* The filters with their include and exclude variables in every           *)
(* combination, in a program whose functions lie in every kind of object.  *)

\* Addresses inside five instrumented functions.
AllAddrs == Addrs \cup { 8, 40 }

\* The values of an include and an exclude variable: unset, empty, or a name.
FilterConfigs ==
    { [Unset EXCEPT !["TRACY_INLIBS"] = inl, !["TRACY_EXLIBS"] = exl,
                    !["TRACY_INFUNS"] = inf, !["TRACY_EXFUNS"] = exf] :
        inl \in {NULL, << >>, S_a},
        exl \in {NULL, S_a, S_b},
        inf \in {NULL, << >>, S_f},
        exf \in {NULL, S_f, S_g} }

InitFilters ==
    /\ \E e \in FilterConfigs : InitProcess(e)
    /\ args = << >>
    /\ result = << >>

NextFilters ==
    \/ TracyInit
    \/ \E self \in AllAddrs : CallWithin(self, ReliableIO, MaxNest, MaxHooks)
    \/ ReturnWithin(ReliableIO, MaxHooks)
    \/ ProcExit

SpecFilters == InitFilters /\ [][NextFilters]_vars

-----------------------------------------------------------------------------
(* The library when system calls fail: backtrace() finds fewer frames, a   *)
(* file cannot be opened, examined or mapped, malloc() returns NULL.       *)

FaultyIOs ==
    { ReliableIO,
      [ReliableIO EXCEPT !.backtrace = 2],
      [ReliableIO EXCEPT !.open = FALSE],
      [ReliableIO EXCEPT !.open = FALSE, !.proc_self_exe = FALSE],
      [ReliableIO EXCEPT !.fstat = FALSE],
      [ReliableIO EXCEPT !.mmap = FALSE],
      [ReliableIO EXCEPT !.mallocs = 0] }

\* No filter, a whitelist or a blacklist of functions, in either mode.
FaultConfigs ==
    { [Unset EXCEPT !["TRACY_INFUNS"] = funs[1], !["TRACY_EXFUNS"] = funs[2],
                    !["TRACY_ASYNC"] = as] :
        funs \in {<<NULL, NULL>>, <<S_g, NULL>>, <<NULL, S_g>>},
        as \in {NULL, S_1} }

InitFaults ==
    /\ \E e \in FaultConfigs : InitProcess(e)
    /\ args = << >>
    /\ result = << >>

NextFaults ==
    \/ TracyInit
    \/ \E self \in AllAddrs, io \in FaultyIOs :
           CallWithin(self, io, MaxNest, MaxHooks)
    \/ \E io \in FaultyIOs : ReturnWithin(io, MaxHooks)
    \/ ProcExit

SpecFaults == InitFaults /\ [][NextFaults]_vars

-----------------------------------------------------------------------------
(* Two runs of one program that differ in one variable of the environment. *)

\* What a script of the traced program does next: it enters a function,
\* returns from the innermost one, receives the trigger signal or exits.
Events ==
    { [op |-> "enter", addr |-> a] : a \in Addrs }
        \cup { [op |-> o, addr |-> 0] : o \in {"exit", "signal", "procexit"} }

\* Calls and returns are well nested, and nothing follows the exit.
RECURSIVE WellNested(_, _)
WellNested(script, depth) ==
    IF script = << >> THEN TRUE
    ELSE IF Head(script).op = "enter" THEN WellNested(Tail(script), depth + 1)
    ELSE IF Head(script).op = "exit"
    THEN depth > 0 /\ WellNested(Tail(script), depth - 1)
    ELSE IF Head(script).op = "procexit" THEN Tail(script) = << >>
    ELSE WellNested(Tail(script), depth)

Scripts ==
    { s \in UNION { [1..n -> Events] : n \in 0..MaxScript } : WellNested(s, 0) }

\* The process after the rest of a script; frames are the functions that are
\* active, innermost first.  The signal is delivered to the handler only if
\* one is installed.
RECURSIVE run_loop(_, _, _)
run_loop(p, frames, script) ==
    IF script = << >> THEN p
    ELSE IF Head(script).op = "enter"
    THEN run_loop(cyg_profile_func_enter(p, Head(script).addr),
                  << Head(script).addr >> \o frames, Tail(script))
    ELSE IF Head(script).op = "exit"
    THEN run_loop(cyg_profile_func_exit(p, Head(frames)), Tail(frames),
                  Tail(script))
    ELSE IF Head(script).op = "signal"
    THEN run_loop(IF p.handler # 0 THEN toggle_tracing(p) ELSE p, frames,
                  Tail(script))
    ELSE run_loop(run_atexit(p, p.atexit_fns), frames, Tail(script))

\* Everything a process started with environment e logs while the program
\* runs the script: the constructor runs first.
Run(e, script) == run_loop(tracy_init(Proc0(e)), << >>, script).out

\* The values a variable is given in the run that sets it.
S_xx == << CH.x, CH.x >>

TwinValues(v) ==
    IF v = "TRACY_MAXDEPTH" THEN { << >>, S_x, S_xx } ELSE { << >> }

\* The environments the variable is set or unset in.
TwinConfigs == { Unset, [Unset EXCEPT !["TRACY_ASYNC"] = S_1] }

InitTwin ==
    /\ InitProcess(Unset)
    /\ \E e \in TwinConfigs, v \in EnvVars, script \in Scripts :
           \E val \in TwinValues(v) :
               args = [ env |-> e, var |-> v, val |-> val, script |-> script ]
    /\ result = << >>

\* Run the script with the variable set and with it unset.
Compare ==
    /\ pc = "start"
    /\ result' = [ set |-> Run([args.env EXCEPT ![args.var] = args.val],
                               args.script),
                   unset |-> Run([args.env EXCEPT ![args.var] = NULL],
                                 args.script) ]
    /\ pc' = "done"
    /\ UNCHANGED << env, armel, Tracing, Callstack_depth, Async_fd, pt, rd, rf,
                    pinfo, seen, handler, atexit_fns, backlog, fd_open, mapped,
                    getenvs,
                    out, outcome, stack, last, nevents, nENTER, nLEAVE,
                    nsignals, sig_midframe, args >>

NextTwin == Compare

SpecTwin == InitTwin /\ [][NextTwin]_vars

-----------------------------------------------------------------------------
(* The whole log of a run, with TRACY_LOG_ENTRIES_ONLY set to 1 and unset. *)

\* Filters, depth limit, async mode and a signal trigger in every
\* combination.
LogConfigs ==
    { [Unset EXCEPT !["TRACY_INLIBS"] = libs[1], !["TRACY_EXLIBS"] = libs[2],
                    !["TRACY_INFUNS"] = funs[1], !["TRACY_EXFUNS"] = funs[2],
                    !["TRACY_MAXDEPTH"] = md, !["TRACY_ASYNC"] = as,
                    !["TRACY_SIGNAL"] = sig] :
        libs \in {<<NULL, NULL>>, <<S_a, NULL>>, <<NULL, S_a>>},
        funs \in {<<NULL, NULL>>, <<S_f, NULL>>, <<NULL, S_f>>},
        md \in {NULL, S_1, S_2},
        as \in {NULL, S_1},
        sig \in {NULL, S_y} }

InitLog ==
    /\ InitProcess(Unset)
    /\ \E e \in LogConfigs, script \in Scripts :
           args = [ env |-> e, script |-> script ]
    /\ result = << >>

\* Run the script with entries only and with entries and exits.
Log ==
    /\ pc = "start"
    /\ result' = [ entries |-> Run([args.env EXCEPT
                                       !["TRACY_LOG_ENTRIES_ONLY"] = S_1],
                                   args.script),
                   all |-> Run(args.env, args.script) ]
    /\ pc' = "done"
    /\ UNCHANGED << env, armel, Tracing, Callstack_depth, Async_fd, pt, rd, rf,
                    pinfo, seen, handler, atexit_fns, backlog, fd_open, mapped,
                    getenvs,
                    out, outcome, stack, last, nevents, nENTER, nLEAVE,
                    nsignals, sig_midframe, args >>

NextLog == Log

SpecLog == InitLog /\ [][NextLog]_vars

-----------------------------------------------------------------------------
(* match_words() of mkwords() on every short list and path.                *)

\* The characters of the lists and paths.
WordChars == { CH.a, CH.b, CH.slash, CH.colon }

InitWords ==
    /\ InitProcess(Unset)
    /\ \E s, x \in StringsOver(WordChars, MaxWordLen) : args = [ s |-> s, x |-> x ]
    /\ result = << >>

\* flist = mkwords(s), then match_words(flist, x)
Match ==
    /\ pc = "start"
    /\ result' = match_words(mkwords(args.s, ReliableIO.mallocs).words, args.x)
    /\ pc' = "done"
    /\ UNCHANGED << env, armel, Tracing, Callstack_depth, Async_fd, pt, rd, rf,
                    pinfo, seen, handler, atexit_fns, backlog, fd_open, mapped,
                    getenvs,
                    out, outcome, stack, last, nevents, nENTER, nLEAVE,
                    nsignals, sig_midframe, args >>

NextWords == Match

SpecWords == InitWords /\ [][NextWords]_vars

-----------------------------------------------------------------------------
(* match_eglob() on every short pattern and string, and on the patterns of *)
(* the documentation.                                                      *)

\* The characters of the patterns and of the strings matched against them.
PatternChars == { CH.a, CH.b, CH.star, CH.qmark, CH.colon, CH.lparen, CH.rparen }
NameChars == { CH.a, CH.b }

\* The nesting depth after the pattern, -1 once a ')' closes nothing.
RECURSIVE paren_depth(_, _)
paren_depth(pat, depth) ==
    IF pat = << >> THEN depth
    ELSE IF Head(pat) = CH.lparen THEN paren_depth(Tail(pat), depth + 1)
    ELSE IF Head(pat) = CH.rparen
    THEN (IF depth = 0 THEN -1 ELSE paren_depth(Tail(pat), depth - 1))
    ELSE paren_depth(Tail(pat), depth)

WellParenthesised(pat) == paren_depth(pat, 0) = 0

\* "*"
P_star == << 42 >>
\* "a:b"
P_a_or_b == << 97, 58, 98 >>
\* "a(b:c)d"
P_group == << 97, 40, 98, 58, 99, 41, 100 >>
\* "a(b:)c"
P_empty_alt == << 97, 40, 98, 58, 41, 99 >>
\* "?"
P_qmark == << 63 >>
\* "foo_*:bar_(alpha:beta)"
P_foo_bar == << 102, 111, 111, 95, 42, 58, 98, 97, 114, 95, 40, 97, 108, 112, 104, 97, 58, 98, 101, 116, 97, 41 >>

ExamplePatterns == { P_star, P_a_or_b, P_group, P_empty_alt, P_qmark, P_foo_bar }

\* "", "a", "b", "ab", "ad", "ac", "abc", "abd", "acd", "abcd", "foo", "foo_", "foo_x", "bar_alpha", "bar_beta", "bar_gamma", "baz_alpha"
ExampleNames ==
    { << >>,
      << 97 >>,
      << 98 >>,
      << 97, 98 >>,
      << 97, 100 >>,
      << 97, 99 >>,
      << 97, 98, 99 >>,
      << 97, 98, 100 >>,
      << 97, 99, 100 >>,
      << 97, 98, 99, 100 >>,
      << 102, 111, 111 >>,
      << 102, 111, 111, 95 >>,
      << 102, 111, 111, 95, 120 >>,
      << 98, 97, 114, 95, 97, 108, 112, 104, 97 >>,
      << 98, 97, 114, 95, 98, 101, 116, 97 >>,
      << 98, 97, 114, 95, 103, 97, 109, 109, 97 >>,
      << 98, 97, 122, 95, 97, 108, 112, 104, 97 >> }

InitGlob ==
    /\ InitProcess(Unset)
    /\ \/ \E pat \in StringsOver(PatternChars, MaxPatLen),
             str \in StringsOver(NameChars, MaxStrLen) :
              /\ WellParenthesised(pat)
              /\ args = [ pattern |-> pat, str |-> str ]
       \/ \E pat \in ExamplePatterns, str \in ExampleNames :
              args = [ pattern |-> pat, str |-> str ]
    /\ result = << >>

\* match_eglob(pattern, str)
Glob ==
    /\ pc = "start"
    /\ result' = match_eglob(args.pattern, args.str)
    /\ pc' = "done"
    /\ UNCHANGED << env, armel, Tracing, Callstack_depth, Async_fd, pt, rd, rf,
                    pinfo, seen, handler, atexit_fns, backlog, fd_open, mapped,
                    getenvs,
                    out, outcome, stack, last, nevents, nENTER, nLEAVE,
                    nsignals, sig_midframe, args >>

NextGlob == Glob

SpecGlob == InitGlob /\ [][NextGlob]_vars

-----------------------------------------------------------------------------
(* getsym() on every short symbol table.                                   *)

\* A string table: "", "f", "$x" (and "x"), "g".
SymNames == << 0, CH.f, 0, CH.dollar, CH.x, 0, CH.g, 0 >>

\* Symbols named "f", "$x", "g", or by an offset at the end of the string
\* table, at four values.
Symbols ==
    { [st_name |-> n, st_value |-> v] :
        n \in { 1, 3, 6, Len(SymNames) }, v \in { 1, 2, 3, 5 } }

SymbolTables == UNION { [1..n -> Symbols] : n \in 0..MaxSyms }

\* The object is loaded at 0 or at 2, and the address lies in it.
InitSym ==
    /\ InitProcess(Unset)
    /\ \E symtab \in SymbolTables, base \in { 0, 2 }, addr \in { 3, 4 } :
           args = [ dso |-> [fname |-> 1, strtab |-> SymNames,
                             symtab |-> symtab],
                    base |-> base, addr |-> addr ]
    /\ result = << >>

\* getsym(dso, base, addr)
Sym ==
    /\ pc = "start"
    /\ result' = getsym(args.dso, args.base, args.addr)
    /\ pc' = "done"
    /\ UNCHANGED << env, armel, Tracing, Callstack_depth, Async_fd, pt, rd, rf,
                    pinfo, seen, handler, atexit_fns, backlog, fd_open, mapped,
                    getenvs,
                    out, outcome, stack, last, nevents, nENTER, nLEAVE,
                    nsignals, sig_midframe, args >>

NextSym == Sym

SpecSym == InitSym /\ [][NextSym]_vars

-----------------------------------------------------------------------------
(* getelf() on every short image, and what addr2name() remembers of it.    *)

SHT_PROGBITS == 1
SIZEOF_ELF64_SYM == 24

\* The first bytes of a file: those of an ELF image, or with one of them
\* wrong.
Idents ==
    { ELFMAG } \cup { [ELFMAG EXCEPT ![i] = CH.x] : i \in DOMAIN ELFMAG }

\* String tables with the name "f" or "g", symbol tables that are empty or
\* hold one symbol, of either record size, and a section of code.
Sections ==
    { Section(SHT_STRTAB, 0, << 0, c, 0 >>, << >>) : c \in { CH.f, CH.g } }
        \cup { Section(SHT_SYMTAB, size, << >>, syms) :
                 size \in { SIZEOF_ELF32_SYM, SIZEOF_ELF64_SYM },
                 syms \in { << >>, << [st_name |-> 1, st_value |-> 24] >> } }
        \cup { Section(SHT_PROGBITS, 0, << >>, << >>) }

Images ==
    { [ e_ident |-> id, shdrs |-> shdrs ] :
        id \in Idents,
        shdrs \in UNION { [1..n -> Sections] : n \in 0..MaxSections } }

InitElf ==
    /\ InitProcess(Unset)
    /\ \E file \in Images : args = [ file |-> file ]
    /\ result = << >>

\* getelf(&newdso, file), called by getdso() for addr2name() when the hook of
\* g() of b is the first to run and b holds the image.
Elf ==
    /\ pc = "start"
    /\ result' =
           [ elf |-> getelf(args.file),
             seen |-> addr2name_newdso(getdso_file(Proc0(Unset), 2, args.file),
                                       PathOf(2), dladdr(32), 32).p.seen ]
    /\ pc' = "done"
    /\ UNCHANGED << env, armel, Tracing, Callstack_depth, Async_fd, pt, rd, rf,
                    pinfo, seen, handler, atexit_fns, backlog, fd_open, mapped,
                    getenvs,
                    out, outcome, stack, last, nevents, nENTER, nLEAVE,
                    nsignals, sig_midframe, args >>

NextElf == Elf

SpecElf == InitElf /\ [][NextElf]_vars

-----------------------------------------------------------------------------
(* The first use of the filter of the libraries when malloc() may fail.    *)

\* $TRACY_INLIBS is s, the path of the object is x, and the first mallocs
\* allocations succeed.
InitAlloc ==
    /\ InitProcess(Unset)
    /\ \E s, x \in StringsOver(WordChars, MaxWordLen),
          mallocs \in 0..(MaxWordLen + 1) :
           args = [ s |-> s, x |-> x, mallocs |-> mallocs ]
    /\ result = << >>

\* report_dso(x), which reads the environment: flist = mkwords(s)
Alloc ==
    /\ pc = "start"
    /\ result' = report_dso([Proc0([Unset EXCEPT !["TRACY_INLIBS"] = args.s])
                                EXCEPT !.io.mallocs = args.mallocs],
                            args.x)
    /\ pc' = "done"
    /\ UNCHANGED << env, armel, Tracing, Callstack_depth, Async_fd, pt, rd, rf,
                    pinfo, seen, handler, atexit_fns, backlog, fd_open, mapped,
                    getenvs,
                    out, outcome, stack, last, nevents, nENTER, nLEAVE,
                    nsignals, sig_midframe, args >>

NextAlloc == Alloc

SpecAlloc == InitAlloc /\ [][NextAlloc]_vars

-----------------------------------------------------------------------------
(* The text of the log of an async run, and ares.pl, which translates it.  *)

MaxLog == 2
MaxTable == 2

T_ENTER == << 69, 78, 84, 69, 82 >>             \* "ENTER"
T_LEAVE == << 76, 69, 65, 86, 69 >>             \* "LEAVE"
T_SYMTAB == << 83, 89, 77, 84, 65, 66, 58 >>    \* "SYMTAB:"
T_0x == << 48, 120 >>                           \* "0x"
T_is == << 32, 61, 32 >>                        \* " = "
T_lbracket == << 91 >>                          \* "["
T_rbracket == << 93 >>                          \* "]"
T_space == << 32 >>                             \* " "
T_colon == << 58 >>                             \* ":"
T_call == << 40, 41 >>                          \* "()"

DecDigits == 48..57                             \* \d
HexDigits == (48..57) \cup (97..102)            \* [0-9a-f]
WordClass == (48..57) \cup (65..90) \cup (97..122) \cup { 95 }     \* \w

\* printf("%u", n) of an unsigned int; a negative n stands for n + 2^32,
\* which is 10 * 429496729 + 6 + n.
RECURSIVE utoa(_)
utoa(n) ==
    IF n < 0
    THEN utoa(429496729 + ((n + 6) \div 10)) \o << 48 + ((n + 6) % 10) >>
    ELSE IF n < 10 THEN << 48 + n >>
    ELSE utoa(n \div 10) \o << 48 + (n % 10) >>

\* The digits of printf("%p", n).
RECURSIVE xtoa(_)
xtoa(n) ==
    IF n < 16 THEN << IF n < 10 THEN 48 + n ELSE 87 + n >>
    ELSE xtoa(n \div 16) \o << IF n % 16 < 10 THEN 48 + (n % 16)
                                ELSE 87 + (n % 16) >>

\* printf("%p", addr) of an address that is not NULL.
ptoa(addr) == T_0x \o xtoa(addr)

\* printf("%*s", width, s): s at the right of a field of width characters,
\* at its left if width is negative.
padded(width, s) ==
    LET field == IF width < 0 THEN -width ELSE width
        pad == [ i \in 1..(IF field > Len(s) THEN field - Len(s) ELSE 0) |-> 32 ]
    IN  IF width < 0 THEN s \o pad ELSE pad \o s

\* The direction word of a line.
dir_text(dir) ==
    CASE dir = "ENTER" -> T_ENTER
      [] dir = "LEAVE" -> T_LEAVE
      [] OTHER -> << >>

\* The part of the address line of print_trace() that precedes the address:
\* "%s%s[%u]%*s" without time and thread.
async_head(line) ==
    dir_text(line.dir) \o T_lbracket \o utoa(line.depth) \o T_rbracket
        \o padded(line.width, T_space)

\* What a line of the table of resolve_backlog() says of its address.
symtab_name(line) ==
    IF line.kind = "symtab"
    THEN line.fname \o T_colon \o line.funame \o T_call
    ELSE line.fname \o T_colon \o T_lbracket \o ptoa(line.addr) \o T_rbracket

\* The text LOGIT() prints for a line of an async run.
fprintf(line) ==
    CASE line.kind = "async" ->
             async_head(line) \o T_lbracket \o ptoa(line.addr) \o T_rbracket
      [] line.kind = "SYMTAB:" -> T_SYMTAB
      [] OTHER -> ptoa(line.addr) \o T_is \o symtab_name(line)

\* The text t stands in the line l at position i.
text_at(l, i, t) ==
    /\ i >= 1
    /\ i + Len(t) - 1 <= Len(l)
    /\ SubSeq(l, i, i + Len(t) - 1) = t

\* The length of the longest run of characters of class at position i of l.
RECURSIVE run_of(_, _, _)
run_of(l, i, class) ==
    IF i <= Len(l) /\ l[i] \in class THEN 1 + run_of(l, i + 1, class) ELSE 0

\* ares.pl: /\bSYMTAB:$/
is_SYMTAB(l) ==
    /\ text_at(l, Len(l) - 6, T_SYMTAB)
    /\ Len(l) = 7 \/ l[Len(l) - 7] \notin WordClass

\* ares.pl: /($RE_HEX) = (.*)/ matched at position i of l; hex is
\* the number of digits of $1.
symtab_entry_at(l, i, hex) ==
    /\ text_at(l, i, T_0x)
    /\ hex > 0
    /\ text_at(l, i + 2 + hex, T_is)

\* The leftmost position where the pattern matches, 0 if none.
symtab_entry_pos(l) ==
    LET at == { i \in 1..Len(l) :
                    symtab_entry_at(l, i, run_of(l, i + 2, HexDigits)) }
    IN  IF at = { } THEN 0 ELSE CHOOSE i \in at : \A j \in at : i <= j

\* ares.pl: $addrs{$1} = $2 if /($RE_HEX) = (.*)/, matched at position i.
addrs_set(addrs, l, i, hex) ==
    LET key == SubSeq(l, i, i + 1 + hex)
        val == SubSeq(l, i + 5 + hex, Len(l))
    IN  [ k \in (DOMAIN addrs) \cup { key } |->
              IF k = key THEN val ELSE addrs[k] ]

\* ares.pl: "fill %addrs with the transformation table".
RECURSIVE addrs_fill(_, _)
addrs_fill(addrs, lines) ==
    IF lines = << >> THEN addrs
    ELSE addrs_fill(
             IF symtab_entry_pos(Head(lines)) = 0 THEN addrs
             ELSE addrs_set(addrs, Head(lines), symtab_entry_pos(Head(lines)),
                            run_of(Head(lines),
                                   symtab_entry_pos(Head(lines)) + 2,
                                   HexDigits)),
             Tail(lines))

\* ares.pl: /((?:ENTER|LEAVE)\[\d+\]) \[($RE_HEX)\]/ matched at position i of
\* l; dec and hex are the numbers of digits of the two numbers.
event_at(l, i, dec, hex) ==
    /\ text_at(l, i, T_ENTER) \/ text_at(l, i, T_LEAVE)
    /\ text_at(l, i + 5, T_lbracket)
    /\ dec > 0
    /\ text_at(l, i + 6 + dec, T_rbracket \o T_space \o T_lbracket \o T_0x)
    /\ hex > 0
    /\ text_at(l, i + 11 + dec + hex, T_rbracket)

\* The number of digits of $2 when the pattern is tried at position i.
event_hex(l, i) ==
    run_of(l, i + 11 + run_of(l, i + 6, DecDigits), HexDigits)

\* The leftmost position where the pattern matches, 0 if none.
event_pos(l) ==
    LET at == { i \in 1..Len(l) :
                    event_at(l, i, run_of(l, i + 6, DecDigits),
                             event_hex(l, i)) }
    IN  IF at = { } THEN 0 ELSE CHOOSE i \in at : \A j \in at : i <= j

\* ares.pl: defined $addrs{$2} ? "$1 $addrs{$2}" : $&, for the match at
\* position i.
event_replaced(l, addrs, i, dec, hex) ==
    LET key == SubSeq(l, i + 9 + dec, i + 10 + dec + hex)
    IN  IF key \in DOMAIN addrs
        THEN SubSeq(l, 1, i + 6 + dec) \o T_space \o addrs[key]
                 \o SubSeq(l, i + 12 + dec + hex, Len(l))
        ELSE l

\* ares.pl: the s///e of a line.
translated(l, addrs) ==
    IF event_pos(l) = 0 THEN l
    ELSE event_replaced(l, addrs, event_pos(l),
                        run_of(l, event_pos(l) + 6, DecDigits),
                        event_hex(l, event_pos(l)))

\* The number of the first line that matches /\bSYMTAB:$/.
SYMTAB_pos(file) ==
    CHOOSE k \in DOMAIN file :
        is_SYMTAB(file[k]) /\ \A j \in 1..(k - 1) : ~is_SYMTAB(file[j])

\* ares.pl, for a file that has a SYMTAB: line: what it prints.
ares(file) ==
    [ i \in 1..(SYMTAB_pos(file) - 1) |->
          translated(file[i],
                     addrs_fill(<< >>, SubSeq(file, SYMTAB_pos(file) + 1,
                                              Len(file)))) ]

\* The address lines print_trace() can print when $TRACY_LOG_ENTRIES_ONLY
\* is entries_only and $TRACY_LOG_INDENT is indent: of either direction (of
\* entries only when only those are logged), at depth 0 or 10, of f() or g().
AsyncLines(entries_only, indent) ==
    { trace_line([Proc0(Unset) EXCEPT !.pt.entries_only = entries_only,
                                      !.pt.indent = indent,
                                      !.Callstack_depth = depth],
                 "async", "", dir, addr) :
        dir \in (IF entries_only = 0 THEN { "ENTER", "LEAVE" }
                 ELSE { "ENTER" }),
        depth \in { 0, 10 },
        addr \in { 16, 32 } }

\* Lines resolve_backlog() can print: two for the address of f() and one
\* for that of g().
SymtabLines ==
    { [Line("symtab") EXCEPT !.addr = 16, !.fname = S_a, !.funame = S_f],
      [Line("symtab_addr") EXCEPT !.addr = 16, !.fname = S_a],
      [Line("symtab") EXCEPT !.addr = 32, !.fname = S_b, !.funame = S_g] }

\* The sequences over S of n elements.
SeqsOf(S, n) == [ 1..n -> S ]

\* The log of an async run: address lines, SYMTAB:, the table.
InitAres ==
    /\ InitProcess(Unset)
    /\ \E entries_only \in { 0, 1 }, indent \in { 0, 1 } :
       \E n \in 1..MaxLog, m \in 0..MaxTable :
       \E log \in SeqsOf(AsyncLines(entries_only, indent), n),
          table \in SeqsOf(SymtabLines, m) :
           args = [ log |-> log, table |-> table ]
    /\ result = << >>

\* The text of the log.
LogFile(log, table) ==
    [ i \in DOMAIN log |-> fprintf(log[i]) ] \o << fprintf(Line("SYMTAB:")) >>
        \o [ i \in DOMAIN table |-> fprintf(table[i]) ]

\* ares.pl <tracy-output>
Ares ==
    /\ pc = "start"
    /\ result' = ares(LogFile(args.log, args.table))
    /\ pc' = "done"
    /\ UNCHANGED << env, armel, Tracing, Callstack_depth, Async_fd, pt, rd, rf,
                    pinfo, seen, handler, atexit_fns, backlog, fd_open, mapped,
                    getenvs,
                    out, outcome, stack, last, nevents, nENTER, nLEAVE,
                    nsignals, sig_midframe, args >>

NextAres == Ares

SpecAres == InitAres /\ [][NextAres]_vars

-----------------------------------------------------------------------------
(* Depth accounting in synchronous mode.                                   *)

\* A frame passed the filters when its entry hook logged its ENTER line.
Admitted(fr) == fr.how = "logged"

\* The number of admitted frames among these.
NAdmitted(frames) == Cardinality({ i \in DOMAIN frames : Admitted(frames[i]) })

\* Synchronous mode, no depth limit, tracing enabled from the start.
SyncUnlimited ==
    /\ env["TRACY_SIGNAL"] = NULL
    /\ ~is_one(env["TRACY_ASYNC"])
    /\ env["TRACY_MAXDEPTH"] \in { NULL, << >> }

\* C1: in synchronous mode with no depth limit and tracing enabled
\* throughout, the filter decision is the same for every frame of one
\* function, and the depth printed on every line is the number of admitted
\* frames that enclose the frame of the line: an admitted frame prints its
\* ENTER line, its LEAVE line carries the depth of its ENTER line, and a
\* suppressed frame prints nothing and counts for nothing.
C1_DepthCountsAdmittedFrames ==
    SyncUnlimited =>
        /\ \A i, j \in DOMAIN stack :
               stack[i].addr = stack[j].addr => stack[i].how = stack[j].how
        /\ pc # "start" => Callstack_depth = NAdmitted(stack)
        /\ last.op = "enter" =>
               /\ Len(out) = (IF Admitted(last.frame) THEN 1 ELSE 0)
               /\ \A i \in DOMAIN out :
                      out[i].depth = NAdmitted(SubSeq(stack, 1, Len(stack) - 1))
        /\ last.op = "exit" =>
               /\ ~Admitted(last.frame) => out = << >>
               /\ Admitted(last.frame) /\ pt.entries_only = 0 =>
                      /\ Len(out) = 1
                      /\ out[1].dir = "LEAVE"
                      /\ out[1].depth = last.frame.d0
               /\ \A i \in DOMAIN out : out[i].depth = NAdmitted(stack)

\* An admitted frame nested in a suppressed frame nested in an admitted frame
\* has returned, and its LEAVE line says depth 1.
C1_Witness ==
    /\ SyncUnlimited
    /\ last.op = "exit"
    /\ Admitted(last.frame)
    /\ Len(stack) = 2
    /\ Admitted(stack[1])
    /\ ~Admitted(stack[2])
    /\ Len(out) = 1
    /\ out[1].dir = "LEAVE"
    /\ out[1].depth = 1

\* C2: with tracing enabled throughout, whatever the depth limit and the
\* filters are, the depth counter after the exit hook of a frame is what it
\* was before the entry hook of that frame, and it is 0 when no frame is
\* active.
C2_DepthBalanced ==
    env["TRACY_SIGNAL"] = NULL =>
        /\ last.op = "exit" => Callstack_depth = last.frame.d0
        /\ pc # "start" /\ stack = << >> => Callstack_depth = 0

-----------------------------------------------------------------------------
(* The depth limit.                                                        *)

\* A depth limit of at least 1, no filters, tracing enabled from the start.
LimitedUnfiltered ==
    /\ env["TRACY_SIGNAL"] = NULL
    /\ \A v \in { "TRACY_INLIBS", "TRACY_EXLIBS", "TRACY_INFUNS", "TRACY_EXFUNS" } :
           env[v] = NULL
    /\ env["TRACY_MAXDEPTH"] \in { S_1, S_2 }

\* C3: with TRACY_MAXDEPTH = L >= 1 and no filters, the hook of a frame at
\* nesting depth n prints its line, annotated with n, iff n < L (the LEAVE
\* line unless only entries are logged), and the depth counter counts every
\* active frame, those beyond the limit too.
C3_DepthLimit ==
    LimitedUnfiltered =>
        /\ pc # "start" => Callstack_depth = Len(stack)
        /\ last.op = "enter" =>
               /\ Len(out) = (IF Len(stack) - 1 < atoi(env["TRACY_MAXDEPTH"])
                              THEN 1 ELSE 0)
               /\ \A i \in DOMAIN out : out[i].depth = Len(stack) - 1
        /\ last.op = "exit" =>
               /\ Len(out) = (IF /\ Len(stack) < atoi(env["TRACY_MAXDEPTH"])
                                 /\ pt.entries_only = 0
                              THEN 1 ELSE 0)
               /\ \A i \in DOMAIN out : out[i].depth = Len(stack)

\* main()->foo()->bar()->baz() with a limit of 2: bar (depth 1) has printed
\* its LEAVE line after baz (depth 2) came and went in silence.
C3_Witness ==
    /\ LimitedUnfiltered
    /\ env["TRACY_MAXDEPTH"] = S_2
    /\ last.op = "exit"
    /\ Len(stack) = 1
    /\ nevents = 5
    /\ nENTER = 2
    /\ nLEAVE = 1
    /\ Len(out) = 1
    /\ out[1].dir = "LEAVE"
    /\ out[1].depth = 1

-----------------------------------------------------------------------------
(* ENTER and LEAVE lines, and the signal trigger.                          *)

\* C4: in every configuration that logs the exits too, the log has at least
\* as many ENTER lines as LEAVE lines at each of its prefixes, and as many of
\* the one as of the other whenever no frame is active.
C4_EnterLeaveBalanced ==
    ~is_one(env["TRACY_LOG_ENTRIES_ONLY"]) =>
        /\ nENTER >= nLEAVE
        /\ stack = << >> => nENTER = nLEAVE

\* The lines of the address => name table resolve_backlog() prints.
IsSymtab(lines) ==
    /\ lines # << >>
    /\ lines[1].kind = "SYMTAB:"
    /\ \A i \in 2..Len(lines) : lines[i].kind \in { "symtab", "symtab_addr" }

\* C5 as stated: once the handler is installed the tracing flag is false
\* until the first delivery and flipped by every delivery, and no step prints
\* anything before the first delivery or between the second and the third.
C5_SilentUntilSignalled ==
    handler # 0 =>
        /\ Tracing = (nsignals % 2 = 1)
        /\ nsignals \in { 0, 2 } => out = << >>

\* C5: once the handler is installed the tracing flag is false until the
\* first delivery and flipped by every delivery; nothing is printed before
\* the first delivery, and while the flag is false after a later delivery
\* the hooks print nothing: the only output then is the address => name
\* table the async mode prints when the process exits.
C5_HooksSilentWhileOff ==
    handler # 0 =>
        /\ Tracing = (nsignals % 2 = 1)
        /\ nsignals = 0 => out = << >>
        /\ nsignals % 2 = 0 /\ out # << >> =>
               /\ last.op = "procexit"
               /\ Async_fd >= 0
               /\ IsSymtab(out)

\* The process exits after the second delivery and prints the table of the
\* addresses it logged between the two.
C5_Witness ==
    /\ handler # 0
    /\ nsignals = 2
    /\ ~Tracing
    /\ last.op = "procexit"
    /\ IsSymtab(out)
    /\ Len(out) >= 2

-----------------------------------------------------------------------------
(* The values of the environment variables.                                *)

\* A TRACY_SIGNAL that does not start with y or Y and is no positive number.
NonPositiveSignal(e) ==
    /\ e # NULL
    /\ Deref(e) \notin { CH.y, CH.Y }
    /\ atoi(e) <= 0

\* C6: after tracy_init() has reported a non-positive TRACY_SIGNAL there is
\* no trigger and tracing is on, as if the variable were unset.
C6_NonPositiveSignalIsNoTrigger ==
    pc # "start" /\ NonPositiveSignal(env["TRACY_SIGNAL"]) =>
        /\ handler = 0
        /\ Tracing
        /\ last.op = "init" => \E i \in DOMAIN out : out[i].kind = "TRACY_SIGNAL"

\* Not the text of an integer: no digit after the optional sign.
NotAnInteger(e) ==
    /\ e # NULL
    /\ e # << >>
    /\ LET digits == IF Head(e) \in { CH.minus, CH.plus } THEN Tail(e) ELSE e
       IN  digits = << >> \/ Head(digits) \notin CH.zero..CH.nine

\* C7: a process whose TRACY_MAXDEPTH is not an integer logs, for every
\* script, the lines it logs when the variable is unset.
C7_InvalidMaxDepthIsUnlimited ==
    /\ pc = "done"
    /\ args.var = "TRACY_MAXDEPTH"
    /\ NotAnInteger(args.val)
    => result.set = result.unset

\* C8: a process with a variable set to the empty string logs, for every
\* script, the lines it logs when the variable is unset.
C8_EmptyIsUnset ==
    pc = "done" /\ args.val = << >> => result.set = result.unset

\* C9: no variable is looked up with getenv() more than once.
C9_GetenvAtMostOnce == \A v \in EnvVars : getenvs[v] <= 1

-----------------------------------------------------------------------------
(* Lists of basenames.                                                     *)

\* The last component of a path: what follows its last slash.
LastComponent(x) ==
    CHOOSE u \in { SubSeq(x, i, Len(x)) : i \in 1..(Len(x) + 1) } :
        /\ \A k \in DOMAIN u : u[k] # CH.slash
        /\ Len(u) = Len(x) \/ x[Len(x) - Len(u)] = CH.slash

\* The colon-delimited segments of a list.
Segments(s) ==
    { SubSeq(s, i, j) : <<i, j>> \in
        { ij \in (1..(Len(s) + 1)) \X (0..Len(s)) :
            /\ ij[2] >= ij[1] - 1
            /\ \A k \in ij[1]..ij[2] : s[k] # CH.colon
            /\ ij[1] = 1 \/ s[ij[1] - 1] = CH.colon
            /\ ij[2] = Len(s) \/ s[ij[2] + 1] = CH.colon } }

-----------------------------------------------------------------------------
(* The grammar of extended globs.                                          *)

\* The positions of pat that lie outside every group.
Outermost(pat) ==
    { i \in DOMAIN pat :
        Cardinality({ j \in 1..(i - 1) : pat[j] = CH.lparen })
            = Cardinality({ j \in 1..(i - 1) : pat[j] = CH.rparen }) }

\* The alternatives of a pattern: what its outermost colons delimit.
Alternatives(pat) ==
    LET colons == { i \in Outermost(pat) : pat[i] = CH.colon }
        ends == colons \cup { Len(pat) + 1 }
    IN  { SubSeq(pat, i, j - 1) : <<i, j>> \in
            { ij \in (1..(Len(pat) + 1)) \X ends :
                /\ ij[1] <= ij[2]
                /\ ij[1] = 1 \/ (ij[1] - 1) \in colons
                /\ \A k \in ij[1]..(ij[2] - 1) : k \notin colons } }

\* The position of the ')' that closes the '(' pat begins with.
Closing(pat) ==
    CHOOSE i \in DOMAIN pat :
        /\ pat[i] = CH.rparen
        /\ paren_depth(SubSeq(pat, 1, i), 0) = 0
        /\ \A j \in 1..(i - 1) : paren_depth(SubSeq(pat, 1, j), 0) > 0

\* The grammar: a pattern derives the strings one of its alternatives
\* derives; an alternative is a sequence of items, each deriving a part of
\* the string: a group what its pattern derives, '*' any run of characters,
\* '?' any one character, another character itself.
RECURSIVE Derives(_, _)
RECURSIVE DerivesSeq(_, _)
Derives(pat, str) == \E alt \in Alternatives(pat) : DerivesSeq(alt, str)

DerivesSeq(items, str) ==
    IF items = << >> THEN str = << >>
    ELSE IF Head(items) = CH.lparen
    THEN \E k \in 0..Len(str) :
             /\ Derives(SubSeq(items, 2, Closing(items) - 1), SubSeq(str, 1, k))
             /\ DerivesSeq(SubSeq(items, Closing(items) + 1, Len(items)),
                           SubSeq(str, k + 1, Len(str)))
    ELSE IF Head(items) = CH.star
    THEN \E k \in 0..Len(str) :
             DerivesSeq(Tail(items), SubSeq(str, k + 1, Len(str)))
    ELSE IF Head(items) = CH.qmark
    THEN str # << >> /\ DerivesSeq(Tail(items), Tail(str))
    ELSE str # << >> /\ Head(str) = Head(items)
                     /\ DerivesSeq(Tail(items), Tail(str))

\* The names the documentation says each of its patterns matches.
ExampleMatches(pat) ==
    CASE pat = P_star -> ExampleNames
      [] pat = P_a_or_b -> { << 97 >>, << 98 >> }
      [] pat = P_group -> { << 97, 98, 100 >>, << 97, 99, 100 >> }
      [] pat = P_empty_alt -> { << 97, 98, 99 >>, << 97, 99 >> }
      [] pat = P_qmark -> { << 97 >>, << 98 >> }
      [] pat = P_foo_bar -> { << 102, 111, 111, 95, 120 >>, << 102, 111, 111, 95 >>, << 98, 97, 114, 95, 97, 108, 112, 104, 97 >>, << 98, 97, 114, 95, 98, 101, 116, 97 >> }

\* C11: match_eglob(p, t) is true iff the grammar of extended globs derives
\* t from the well-parenthesised pattern p, and the patterns of the
\* documentation match the names it says they match and no other.
C11_EglobIsTheGrammar ==
    pc = "done" /\ DOMAIN args = { "pattern", "str" } =>
        /\ result = Derives(args.pattern, args.str)
        /\ args.pattern \in ExamplePatterns /\ args.str \in ExampleNames =>
               result = (args.str \in ExampleMatches(args.pattern))

\* "foo_" matches "foo_*:bar_(alpha:beta)": the '*' stands for nothing.
C11_Witness ==
    /\ pc = "done"
    /\ args.pattern = P_foo_bar
    /\ args.str = << 102, 111, 111, 95 >>
    /\ result = TRUE

-----------------------------------------------------------------------------
(* The modes of the filters.                                               *)

\* The mode the statics of report_dso() and of report_function() stand for.
LibMode(r) ==
    IF r.report_all # 0 THEN "report-all"
    ELSE IF r.flist = << >> THEN "unresolved"
    ELSE IF r.is_whitelist # 0 THEN "whitelist" ELSE "blacklist"

FunMode(r) ==
    IF r.report_all # 0 THEN "report-all"
    ELSE IF r.pattern = NULL THEN "unresolved"
    ELSE IF r.is_whitelist # 0 THEN "whitelist" ELSE "blacklist"

NonEmpty(val) == val # NULL /\ val # << >>

\* The process as it is, and as it would have been started without var.
ProcNow == [Proc(ReliableIO) EXCEPT !.out = << >>]
StartedWithout(var) == Proc0([env EXCEPT ![var] = NULL])

\* The filter of the libraries is the whitelist of $TRACY_INLIBS, and decides
\* as if $TRACY_EXLIBS, which it never read, was unset.
IncludedLibsOnly ==
    /\ LibMode(rd) = "whitelist"
    /\ rd.flist = mkwords(env["TRACY_INLIBS"], ReliableIO.mallocs).words
    /\ getenvs["TRACY_EXLIBS"] = 0
    /\ \A fname \in 1..3 :
           report_dso(ProcNow, PathOf(fname)).ret
               = report_dso(StartedWithout("TRACY_EXLIBS"), PathOf(fname)).ret

\* The same of the filter of the functions.
IncludedFunsOnly ==
    /\ FunMode(rf) = "whitelist"
    /\ rf.pattern = env["TRACY_INFUNS"]
    /\ getenvs["TRACY_EXFUNS"] = 0
    /\ \A funame \in { NULL, S_f, S_g } :
           report_function(ProcNow, funame).ret
               = report_function(StartedWithout("TRACY_EXFUNS"), funame).ret

FilterModesResolved ==
    /\ getenvs["TRACY_INLIBS"] > 0 => LibMode(rd) # "unresolved"
    /\ getenvs["TRACY_INFUNS"] > 0 => FunMode(rf) # "unresolved"
    /\ LibMode(rd) # "unresolved" /\ NonEmpty(env["TRACY_INLIBS"])
            /\ NonEmpty(env["TRACY_EXLIBS"]) => IncludedLibsOnly
    /\ FunMode(rf) # "unresolved" /\ NonEmpty(env["TRACY_INFUNS"])
            /\ NonEmpty(env["TRACY_EXFUNS"]) => IncludedFunsOnly

FilterModesKept ==
    /\ LibMode(rd) # "unresolved" => rd' = rd
    /\ FunMode(rf) # "unresolved" => rf' = rf

\* C12: each filter is in one of the modes report-all, whitelist and
\* blacklist from its first use on and keeps that mode; when its include and
\* its exclude variable are both non-empty it is the whitelist of the include
\* variable and decides as if the exclude variable was unset.
C12_FilterModes == [](FilterModesResolved) /\ [][FilterModesKept]_vars

\* g() of b was entered and omitted under TRACY_INLIBS=a TRACY_EXLIBS=a, f()
\* of /a is entered and logged.
C12_Witness ==
    /\ env["TRACY_INLIBS"] = S_a /\ env["TRACY_EXLIBS"] = S_a
    /\ env["TRACY_INFUNS"] = S_f /\ env["TRACY_EXFUNS"] = S_f
    /\ Len(stack) = 2
    /\ stack[1].addr = 32 /\ stack[1].how = "omitted"
    /\ stack[2].addr = 16 /\ stack[2].how = "logged"

-----------------------------------------------------------------------------
(* The filter of the libraries in synchronous mode.                        *)

\* Synchronous mode, tracing enabled from the start, and the last step was a
\* hook.
SyncHook ==
    /\ env["TRACY_SIGNAL"] = NULL
    /\ ~is_one(env["TRACY_ASYNC"])
    /\ last.op \in { "enter", "exit" }

\* The hook has logged a line of the trace.
Emitted == \E i \in DOMAIN out : out[i].kind \in { "trace", "trace_addr" }

\* The object the loader attributes the address to is named in the list.
InListedDSO(addr, list) ==
    /\ dladdr(addr).ok
    /\ LastComponent(PathOf(dladdr(addr).dli_fname)) \in Segments(list)

\* Nothing but the filter of the libraries can keep the line of the hook from
\* the log.
OnlyLibsFiltered ==
    /\ env["TRACY_INFUNS"] = NULL /\ env["TRACY_EXFUNS"] = NULL
    /\ env["TRACY_MAXDEPTH"] = NULL
    /\ last.op = "exit" => ~is_one(env["TRACY_LOG_ENTRIES_ONLY"])

\* C13: in synchronous mode with a non-empty TRACY_INLIBS a hook logs a line
\* only for an address in an object whose basename is listed, whatever the
\* address is; with only TRACY_EXLIBS non-empty a hook logs no line for an
\* address in a listed object, and logs one for every other object.
C13_LibraryFilter ==
    SyncHook =>
        /\ NonEmpty(env["TRACY_INLIBS"]) /\ Emitted =>
               InListedDSO(last.frame.addr, env["TRACY_INLIBS"])
        /\ ~NonEmpty(env["TRACY_INLIBS"]) /\ NonEmpty(env["TRACY_EXLIBS"]) =>
               /\ Emitted => ~InListedDSO(last.frame.addr, env["TRACY_EXLIBS"])
               /\ OnlyLibsFiltered /\ dladdr(last.frame.addr).ok
                      /\ ~InListedDSO(last.frame.addr, env["TRACY_EXLIBS"])
                      => Emitted

-----------------------------------------------------------------------------
(* Functions whose name cannot be found.                                   *)

\* The tables of the object of addr are in the cache.
Cached(addr) == \E i \in DOMAIN seen : seen[i].fname = dladdr(addr).dli_fname

\* The file of the object of addr can be opened, examined and mapped, and
\* is an ELF image.
Readable(addr, io) ==
    LET path == PathOf(dladdr(addr).dli_fname)
    IN  /\ io.open \/ (Head(path) # CH.slash /\ io.proc_self_exe)
        /\ io.fstat
        /\ io.mmap
        /\ ImageOf(path).e_ident = ELFMAG

\* The symbol table of the object of addr (which is loaded at 0 and defines
\* nothing there) has a symbol at or below addr whose name lies in the
\* string table and begins with no '$'.
HasEligibleSymbol(addr) ==
    LET elf == getelf(ImageOf(PathOf(dladdr(addr).dli_fname)))
    IN  \E i \in DOMAIN elf.symtab :
            /\ elf.symtab[i].st_value <= addr
            /\ elf.symtab[i].st_name < Len(elf.strtab)
            /\ elf.strtab[elf.symtab[i].st_name + 1] # CH.dollar

\* The name of the function of addr cannot be found by a hook that is about
\* to run with system calls answering io.
NameUnresolved(addr, io) ==
    \/ ~dladdr(addr).ok
    \/ /\ dladdr(addr).ok
       /\ dladdr(addr).dli_sname = NULL
       /\ \/ ~Cached(addr) /\ ~Readable(addr, io)
          \/ (Cached(addr) \/ Readable(addr, io)) /\ ~HasEligibleSymbol(addr)

\* The name the trace prints for the object of addr.
DSOName(addr) ==
    IF dladdr(addr).ok THEN LastComponent(PathOf(dladdr(addr).dli_fname))
    ELSE UNKNOWN_DSO

\* A hook runs in synchronous mode for a function whose name cannot be
\* found, backtrace() working.
UnresolvedHook(op) ==
    /\ ~is_one(env["TRACY_ASYNC"])
    /\ env["TRACY_INLIBS"] = NULL /\ env["TRACY_EXLIBS"] = NULL
    /\ nevents' = nevents + 1
    /\ last'.op = op
    /\ last'.io.backtrace >= 3
    /\ NameUnresolved(last'.frame.addr, last'.io)

\* The lines of the trace among the lines logged, which may hold
\* diagnostics too.
IsTraceLine(line) == line.kind \in { "trace", "trace_addr" }
TraceLines(lines) == SelectSeq(lines, IsTraceLine)

AddressLine(dir) ==
    /\ Len(TraceLines(out')) = 1
    /\ TraceLines(out')[1].kind = "trace_addr"
    /\ TraceLines(out')[1].dir = dir
    /\ TraceLines(out')[1].fname = DSOName(last'.frame.addr)
    /\ TraceLines(out')[1].addr = last'.frame.addr

UnresolvedNameFiltered ==
    /\ UnresolvedHook("enter") =>
           IF NonEmpty(env["TRACY_INFUNS"])
           THEN TraceLines(out') = << >> /\ Callstack_depth' = Callstack_depth
           ELSE AddressLine("ENTER") /\ Callstack_depth' = Callstack_depth + 1
    /\ UnresolvedHook("exit") =>
           IF NonEmpty(env["TRACY_INFUNS"])
           THEN TraceLines(out') = << >> /\ Callstack_depth' = Callstack_depth
           ELSE AddressLine("LEAVE") /\ Callstack_depth' = Callstack_depth - 1

\* C14: when the name of the function of an event cannot be found (dladdr()
\* failed, the file of the object could not be opened or is no ELF image, or
\* no eligible symbol lies at or below the address), a hook in synchronous
\* mode logs "<dso>:[0xADDR]" and counts the event in the depth if all
\* functions are reported or there is a blacklist of functions, and logs
\* nothing and leaves the depth alone if there is a whitelist of functions.
C14_UnresolvedNameFiltered == [][UnresolvedNameFiltered]_vars

\* With TRACY_EXFUNS=g the entry of g() of b is logged by its address at
\* depth 1, because b could not be opened, inside a function of /x, which is
\* no ELF image.
C14_Witness ==
    /\ env["TRACY_EXFUNS"] = S_g /\ env["TRACY_ASYNC"] = NULL
    /\ last.op = "enter"
    /\ Len(stack) = 2
    /\ stack[1].addr = 40 /\ stack[1].how = "logged"
    /\ stack[2].addr = 32 /\ stack[2].how = "logged"
    /\ ~last.io.open /\ ~last.io.proc_self_exe
    /\ Len(out) = 1
    /\ out[1].kind = "trace_addr" /\ out[1].depth = 1
    /\ Callstack_depth = 2

-----------------------------------------------------------------------------
(* The table of async mode.                                                *)

\* The program of the run has called exit().
Exited(script) == script # << >> /\ script[Len(script)].op = "procexit"

\* The lines of the table of a log that translate addr.
Translations(log, addr) ==
    { j \in DOMAIN log : /\ log[j].kind \in { "symtab", "symtab_addr" }
                         /\ log[j].addr = addr }

\* C15: in async mode, whatever the hooks, the filters and the depth limit
\* are, once the process has exited every address of an ENTER line of the
\* log is the left-hand side of a line of the table the log ends with.
C15_SymtabCoversEnters ==
    pc = "done" /\ DOMAIN args = { "env", "script" }
                /\ is_one(args.env["TRACY_ASYNC"]) /\ Exited(args.script) =>
        \A i \in DOMAIN result.all :
            result.all[i].kind = "async" /\ result.all[i].dir = "ENTER" =>
                Translations(result.all, result.all[i].addr) # { }

-----------------------------------------------------------------------------
(* Logging entries only.                                                   *)

\* The lines the hooks log for the events of the program.
IsEventLine(line) == line.kind \in { "trace", "trace_addr", "async" }
IsEnterLine(line) == IsEventLine(line) /\ line.dir = "ENTER"

\* The lines of a log with the direction word ENTER restored.
RECURSIVE AsEnterLines(_)
AsEnterLines(lines) ==
    IF lines = << >> THEN << >>
    ELSE << [Head(lines) EXCEPT !.dir = "ENTER"] >> \o AsEnterLines(Tail(lines))

\* C16: with TRACY_LOG_ENTRIES_ONLY=1 the hooks log no line for an exit, and
\* the lines they log, depth and all, are the ENTER lines of the same run
\* without it but for the direction word, whatever the hooks, the filters,
\* the depth limit, the mode and the signal trigger are.
C16_EntriesOnlyIsTheEnterLines ==
    pc = "done" /\ DOMAIN args = { "env", "script" } =>
        /\ \A i \in DOMAIN result.entries :
               IsEventLine(result.entries[i]) => result.entries[i].dir = ""
        /\ AsEnterLines(SelectSeq(result.entries, IsEventLine))
               = SelectSeq(result.all, IsEnterLine)

\* f() is omitted by TRACY_EXFUNS=f and g(), called by f(), returns: the log
\* has the ENTER and the LEAVE line of g() at depth 0, or its entry alone.
C16_Witness ==
    /\ pc = "done"
    /\ args.env = [Unset EXCEPT !["TRACY_EXFUNS"] = S_f]
    /\ args.script = << [op |-> "enter", addr |-> 16],
                        [op |-> "enter", addr |-> 32],
                        [op |-> "exit", addr |-> 0] >>
    /\ Len(result.all) = 2
    /\ Len(result.entries) = 1
    /\ result.entries[1].depth = 0

-----------------------------------------------------------------------------
(* A backtrace of fewer than three frames.                                 *)

\* A hook runs on a build that is not for ARM and backtrace() returns fewer
\* than three frames.
ShortBacktraceHook ==
    /\ ~armel
    /\ nevents' = nevents + 1
    /\ last'.op \in { "enter", "exit" }
    /\ last'.io.backtrace < 3

EventSkipped ==
    ShortBacktraceHook => out' = << >> /\ Callstack_depth' = Callstack_depth

\* C17: when backtrace() returns fewer than three frames, the entry hook and
\* the exit hook alike log nothing and leave the depth counter as it was.
C17_ShortBacktraceSkipsEvent == [][EventSkipped]_vars

-----------------------------------------------------------------------------
(* The closest eligible symbol.                                            *)

\* A symbol is eligible if its name lies inside the string table and does
\* not begin with '$'.
Eligible(strtab, sym) ==
    /\ sym.st_name < Len(strtab)
    /\ strtab[sym.st_name + 1] # CH.dollar

\* The address to compare with the value of the symbol, and how far the
\* symbol lies below it.
ComparisonAddress(sym, base, addr) ==
    IF sym.st_value > base THEN addr ELSE addr - base

Gap(sym, base, addr) == ComparisonAddress(sym, base, addr) - sym.st_value

\* The eligible symbols at or below the address.
Candidates(dso, base, addr) ==
    { i \in DOMAIN dso.symtab :
        /\ Eligible(dso.strtab, dso.symtab[i])
        /\ Gap(dso.symtab[i], base, addr) >= 0 }

\* The string at an offset of the string table.
NameAt(strtab, off) ==
    SubSeq(strtab, off + 1,
           CHOOSE e \in off..Len(strtab) :
               /\ \A k \in (off + 1)..e : strtab[k] # 0
               /\ e = Len(strtab) \/ strtab[e + 1] = 0)

\* C18: getsym() returns NULL iff no eligible symbol lies at or below the
\* comparison address, and otherwise the name of an eligible symbol than
\* which no eligible symbol is closer, however many ineligible symbols are
\* closer still.
C18_ClosestEligibleSymbol ==
    pc = "done" /\ DOMAIN args = { "dso", "base", "addr" } =>
        IF Candidates(args.dso, args.base, args.addr) = { }
        THEN result = NULL
        ELSE \E i \in Candidates(args.dso, args.base, args.addr) :
                 /\ \A j \in Candidates(args.dso, args.base, args.addr) :
                        Gap(args.dso.symtab[i], args.base, args.addr)
                            <= Gap(args.dso.symtab[j], args.base, args.addr)
                 /\ result = NameAt(args.dso.strtab, args.dso.symtab[i].st_name)

\* "$x" at 3 and a symbol without a name at 2 lie closer to 4 than "g" at 1
\* in an object loaded at 2, and getsym() answers "g".
C18_Witness ==
    /\ pc = "done"
    /\ args.base = 2 /\ args.addr = 4
    /\ args.dso.symtab = << [st_name |-> 3, st_value |-> 3],
                            [st_name |-> 6, st_value |-> 1],
                            [st_name |-> Len(SymNames), st_value |-> 2] >>
    /\ result = << CH.g >>

-----------------------------------------------------------------------------
(* The images getelf() accepts.                                            *)

\* The section headers of a type, and the last of them.
SectionsOfType(file, type) ==
    { i \in DOMAIN file.shdrs : file.shdrs[i].sh_type = type }

LastOfType(file, type) ==
    CHOOSE i \in SectionsOfType(file, type) :
        \A j \in SectionsOfType(file, type) : j <= i

Acceptable(file) ==
    /\ file.e_ident = << 127, CH.E, CH.L, 70 >>
    /\ SectionsOfType(file, SHT_STRTAB) # { }
    /\ SectionsOfType(file, SHT_SYMTAB) # { }
    /\ file.shdrs[LastOfType(file, SHT_SYMTAB)].sh_entsize = SIZEOF_ELF32_SYM

\* C19: getelf() accepts an image iff it begins with the ELF magic, has a
\* STRTAB and a SYMTAB section header and the entry size of the SYMTAB it
\* records is the size of a symbol record; the string table it records is
\* the last STRTAB in header order; and the object of a rejected image is
\* not put in the cache, that of an accepted one is.
C19_GetelfAccepts ==
    pc = "done" /\ DOMAIN args = { "file" } =>
        /\ result.elf.ok = Acceptable(args.file)
        /\ result.elf.ok =>
               /\ result.elf.strtab
                      = args.file.shdrs[LastOfType(args.file, SHT_STRTAB)].bytes
               /\ result.elf.symtab
                      = args.file.shdrs[LastOfType(args.file, SHT_SYMTAB)].syms
               /\ result.seen = << [fname |-> 2, strtab |-> result.elf.strtab,
                                    symtab |-> result.elf.symtab] >>
        /\ ~result.elf.ok => result.seen = << >>

\* An image with the string tables "f" and "g" about its symbol table: the
\* names are taken from "g".
C19_Witness ==
    /\ pc = "done"
    /\ DOMAIN args = { "file" }
    /\ Len(args.file.shdrs) = 3
    /\ args.file.shdrs[1].bytes = << 0, CH.f, 0 >>
    /\ args.file.shdrs[2].sh_type = SHT_SYMTAB
    /\ args.file.shdrs[3].bytes = << 0, CH.g, 0 >>
    /\ result.elf.ok
    /\ result.elf.strtab = << 0, CH.g, 0 >>
    /\ Len(result.seen) = 1

-----------------------------------------------------------------------------
(* The cache of objects.                                                   *)

\* The entries a step has put in the cache, if it has kept those it had.
Inserted == SubSeq(seen', 1, Len(seen') - Len(seen))

\* The entry of the object whose file name the loader gives as fname.
EntryOf(fname) ==
    [ fname |-> fname,
      strtab |-> getelf(ImageOf(PathOf(fname))).strtab,
      symtab |-> getelf(ImageOf(PathOf(fname))).symtab ]

\* A hook in synchronous mode looks for the object of its address in the
\* cache and does not find it.
CacheMiss ==
    /\ ~is_one(env["TRACY_ASYNC"])
    /\ nevents' = nevents + 1
    /\ last'.op \in { "enter", "exit" }
    /\ last'.io.backtrace >= 3
    /\ dladdr(last'.frame.addr).ok
    /\ dladdr(last'.frame.addr).dli_sname = NULL
    /\ ~Cached(last'.frame.addr)

NoTwoEntriesOfOneObject ==
    \A i, j \in DOMAIN seen : seen[i].fname = seen[j].fname => i = j

CacheStep ==
    /\ Len(seen') >= Len(seen)
    /\ seen = SubSeq(seen', Len(seen') - Len(seen) + 1, Len(seen'))
    /\ \A k \in DOMAIN Inserted :
           /\ Inserted[k] = EntryOf(Inserted[k].fname)
           /\ getelf(ImageOf(PathOf(Inserted[k].fname))).ok
           /\ last'.op \in { "enter", "exit" } =>
                  /\ Len(Inserted) = 1
                  /\ Inserted[k].fname = dladdr(last'.frame.addr).dli_fname
                  /\ Readable(last'.frame.addr, last'.io)
                  /\ last'.io.mallocs > 0
    /\ CacheMiss =>
           IF Readable(last'.frame.addr, last'.io) /\ last'.io.mallocs > 0
           THEN Inserted = << EntryOf(dladdr(last'.frame.addr).dli_fname) >>
           ELSE seen' = seen

\* C20: the cache of addr2name() never holds two entries of one file name
\* pointer; a step keeps every entry as it is; an entry is put in only by an
\* attempt that opened, examined, mapped and parsed the file (and allocated
\* the entry); a failed attempt leaves the cache as it was, and a later
\* attempt for the same object opens the file again and puts it in.
C20_CacheGrowsBySuccess == [](NoTwoEntriesOfOneObject) /\ [][CacheStep]_vars

\* The object /x, which is no ELF image, is not in the cache after the hook
\* of a function of it ran; b is, after the hook of g(), called from there.
C20_Witness ==
    /\ env["TRACY_ASYNC"] = NULL
    /\ Len(stack) = 2
    /\ stack[1].addr = 40 /\ stack[1].how = "logged"
    /\ stack[2].addr = 32 /\ stack[2].how = "logged"
    /\ seen = << EntryOf(2) >>
    /\ fd_open = { 3 }

-----------------------------------------------------------------------------
(* Word lists when malloc() fails.                                         *)

\* The allocations mkwords() needs for a list: one for each segment.
SegmentCount(s) == 1 + Cardinality({ i \in DOMAIN s : s[i] = CH.colon })

\* The words of a list the filter holds.
WordsOf(flist) ==
    { SubSeq(flist[i].word, 1, flist[i].length) : i \in DOMAIN flist }

\* C21: when an allocation of mkwords() fails, for the first or for a later
\* segment, a diagnostic is logged and the filter holds no list; a list the
\* filter holds has every segment of the string.
C21_NoTruncatedList ==
    pc = "done" /\ DOMAIN args = { "s", "x", "mallocs" } =>
        /\ args.s # << >> /\ args.mallocs < SegmentCount(args.s) =>
               /\ \E i \in DOMAIN result.p.out : result.p.out[i].kind = "malloc"
               /\ result.p.rd.flist = << >>
        /\ result.p.rd.flist # << >> =>
               WordsOf(result.p.rd.flist) = Segments(args.s)

-----------------------------------------------------------------------------
(* The hooks while tracing is off.                                         *)

\* A hook runs while the tracing flag is false.
HookWhileOff ==
    /\ ~Tracing
    /\ nevents' = nevents + 1
    /\ last'.op \in { "enter", "exit" }

HookWhileOffIsNoop ==
    HookWhileOff =>
        /\ out' = << >>
        /\ UNCHANGED << Tracing, Callstack_depth, Async_fd, pt, rd, rf, pinfo,
                        seen, handler, atexit_fns, backlog, fd_open, mapped,
                        getenvs >>

\* C22: while the tracing flag is false the entry hook and the exit hook
\* log nothing and leave the depth counter, the latched configuration, the
\* cache of objects, the backlog and every other static as they were.
C22_HooksIdleWhileOff == [][HookWhileOffIsNoop]_vars

\* Tracing was switched on and off again by the signal inside f(), whose
\* frame was counted and logged in async mode; the entry hook of g() has
\* then run and found everything as it was.
C22_Witness ==
    /\ ~Tracing
    /\ nsignals = 2
    /\ last.op = "enter"
    /\ Len(stack) = 2
    /\ stack[1].how = "async"
    /\ stack[2].how = "none"
    /\ Callstack_depth = 1
    /\ backlog = << stack[1].addr >>
    /\ out = << >>

-----------------------------------------------------------------------------
(* The hooks in async mode.                                                *)

\* A hook runs with tracing on, finds the depth d below the limit, if there
\* is one, and the backlog file is open when it returns.
AsyncHook(op, d) ==
    /\ Tracing
    /\ nevents' = nevents + 1
    /\ last'.op = op
    /\ Async_fd' \in fd_open'
    /\ ~(pt'.depth_limited # 0 /\ UGE(d, pt'.depth_limit))

\* The one line of the hook: the address at depth d.
AddressLogged(dir, d) ==
    /\ Len(out') = 1
    /\ out'[1].kind = "async"
    /\ out'[1].dir = (IF pt'.entries_only # 0 THEN "" ELSE dir)
    /\ out'[1].depth = d
    /\ out'[1].addr = last'.frame.addr

FiltersUnread ==
    /\ UNCHANGED << rd, rf, seen >>
    /\ \A v \in { "TRACY_INLIBS", "TRACY_EXLIBS", "TRACY_INFUNS", "TRACY_EXFUNS" } :
           getenvs'[v] = 0

AsyncHooksAdmit ==
    /\ AsyncHook("enter", Callstack_depth) =>
           /\ FiltersUnread
           /\ AddressLogged("ENTER", Callstack_depth)
           /\ backlog' = Append(backlog, last'.frame.addr)
           /\ Callstack_depth' = UInc(Callstack_depth)
    /\ AsyncHook("exit", UDec(Callstack_depth)) =>
           /\ FiltersUnread
           /\ IF pt'.entries_only # 0 THEN out' = << >>
              ELSE AddressLogged("LEAVE", UDec(Callstack_depth))
           /\ backlog' = backlog
           /\ Callstack_depth' = UDec(Callstack_depth)

\* C23: in async mode with the backlog file open print_trace() consults no
\* filter: every event below the depth limit is counted in the depth, an
\* entry logs one address line and appends its address to the backlog, an
\* exit appends nothing, so that the backlog is the addresses of the ENTER
\* lines in the order they were logged.
C23_AsyncHooksAdmit == [][AsyncHooksAdmit]_vars

\* With TRACY_ASYNC=1 TRACY_INLIBS=a TRACY_EXFUNS=f, f() of /a and g() of b
\* were entered, g() returned and was entered again: three addresses in the
\* backlog, depth 2.
C23_Witness ==
    /\ is_one(env["TRACY_ASYNC"])
    /\ env["TRACY_INLIBS"] = S_a /\ env["TRACY_EXFUNS"] = S_f
    /\ last.op = "enter"
    /\ Len(stack) = 2
    /\ stack[1].addr = 16 /\ stack[2].addr = 32
    /\ backlog = << 16, 32, 32 >>
    /\ Callstack_depth = 2
    /\ Len(out) = 1 /\ out[1].addr = 32 /\ out[1].depth = 1


-----------------------------------------------------------------------------
(* Descriptors and mappings of the objects addr2name() opens.              *)

\* Every mapping has its descriptor, there is one mapping for each entry of
\* the cache, and the only descriptor open without a mapping is that of the
\* backlog.
HeldByCache ==
    /\ mapped \subseteq fd_open
    /\ Cardinality(mapped) = Len(seen)
    /\ fd_open \ mapped \subseteq { Async_fd }

\* A hook in synchronous mode that does not find the object of its address
\* in the cache and cannot put it there: open(), fstat() or mmap() fails, the
\* file is no ELF image, or the entry cannot be allocated.
FailedAttempt ==
    /\ CacheMiss
    /\ ~(Readable(last'.frame.addr, last'.io) /\ last'.io.mallocs > 0)

FailedAttemptReleases ==
    FailedAttempt => fd_open' = fd_open /\ mapped' = mapped

\* C24: an attempt of addr2name() to open an object that fails in getdso()
\* (at open, fstat, mmap or the ELF check) or at the allocation of the cache
\* entry leaves the descriptors and mappings of the process as they were;
\* at any time the mappings and the descriptors held for objects are those
\* of the entries of the cache, one each.
C24_FailedAttemptsRelease == [](HeldByCache) /\ [][FailedAttemptReleases]_vars

\* g() of the object b has called itself; the file was opened and mapped
\* for both hooks, the second time with no memory for the entry, and b is
\* not in the cache and nothing is open or mapped.
C24_Witness ==
    /\ env["TRACY_ASYNC"] = NULL
    /\ Len(stack) = 2
    /\ stack[1].addr = 32 /\ stack[1].how = "logged"
    /\ stack[2].addr = 32 /\ stack[2].how = "logged"
    /\ last.op = "enter"
    /\ last.io.mallocs = 0 /\ Readable(32, last.io)
    /\ seen = << >>
    /\ fd_open = { } /\ mapped = { }


-----------------------------------------------------------------------------
(* The depth counter when the trigger signal toggles tracing.              *)

\* The active frames among these whose entry hook ran while tracing was on
\* and logged them.
NTraced(frames) ==
    Cardinality({ i \in DOMAIN frames :
                      /\ frames[i].traced
                      /\ frames[i].how \in { "logged", "async" } })

\* The frames that were active when the last hook printed: all but the one
\* an entry hook has just pushed.
ActiveAtLine ==
    IF last.op = "enter" THEN SubSeq(stack, 1, Len(stack) - 1) ELSE stack

\* C25: once toggle_tracing() is installed for the trigger signal, however
\* its deliveries fall among the hook calls, the depth counter is never
\* below zero (never wraps to 4294967295), and every ENTER or LEAVE line says
\* as its depth the number of active frames that were logged on entry with
\* tracing on.
C25_DepthUnderSignals ==
    handler # 0 =>
        /\ Callstack_depth >= 0
        /\ \A i \in DOMAIN out :
               IsEventLine(out[i]) => out[i].depth = NTraced(ActiveAtLine)


-----------------------------------------------------------------------------
(* Hooks that run after resolve_backlog().                                 *)

\* resolve_backlog() has run at exit and closed the backlog file.
BacklogClosed ==
    /\ pc = "exiting"
    /\ Async_fd >= 0
    /\ Async_fd \notin fd_open

\* C26: once resolve_backlog() has printed the SYMTAB block and closed the
\* backlog file, the hook of a function that runs later (called from a
\* destructor or another exit handler) does not take the branch of
\* print_trace() that writes to Async_fd, and prints no ENTER or LEAVE line.
C26_QuietAfterResolve ==
    BacklogClosed /\ last.op \in { "enter", "exit" } =>
        /\ outcome # "async"
        /\ \A i \in DOMAIN out : ~IsEventLine(out[i])


-----------------------------------------------------------------------------
(* ares.pl on the log of an async run.                                     *)

\* The lines of the table that are about the address of this line.
EntriesFor(line, table) == { k \in DOMAIN table : table[k].addr = line.addr }

\* The line with its bracketed address replaced by what the last line of the
\* table about that address says, as it is if there is none.
Resolved(line, table) ==
    IF EntriesFor(line, table) = { } THEN fprintf(line)
    ELSE async_head(line)
             \o symtab_name(table[CHOOSE k \in EntriesFor(line, table) :
                                      \A j \in EntriesFor(line, table) : j <= k])

\* C27: ares.pl prints one line for each line of the log that precedes
\* SYMTAB: and none for the table; whatever the depth, the indentation and
\* the direction word (or its absence) of an address line are, it prints the
\* line with the bracketed address replaced by the text of the last entry of
\* the table for that address, and prints it unchanged if there is none.
C27_AresResolves ==
    pc = "done" =>
        /\ Len(result) = Len(args.log)
        /\ \A i \in DOMAIN args.log :
               result[i] = Resolved(args.log[i], args.table)

====
